---- MODULE Spec2Model ----
(***************************************************************************)
(* A model of pyClarion's numdict operation library (numdicts/ops.py), of  *)
(* its registration at import time, and of the realizer network            *)
(* (base/realizers.py).                                                     *)
(*                                                                         *)
(* Numbers.  A numdict value is a rational; a numdict carries one          *)
(* denominator `den` for all its entries, so the entry at k is m[k]/den    *)
(* and the default is default/den.  Client numdicts have den = 1.          *)
(* Optional values (Python's None) are sets of at most one element:        *)
(* None is {} and a present value v is {v}.                                 *)
(***************************************************************************)
EXTENDS Integers, Sequences, FiniteSets, TLC

VARIABLES
    pc,        \* position of the client: "load", "start", "called", "done"
    tape,      \* the process-wide tape: sequence of call records
    nextId,    \* next fresh object identity (Python's id() of a new NumDict)
    ret,       \* outcome of the last library call
    lpc,       \* index of the next decorator application of ops.py
    ops,       \* names registered by register_op
    grads,     \* names that have a backward rule attached by register_grad
    lerr,      \* TRUE once a registration raised the configuration error
    rinputs,   \* realizer -> sequence of input constructs (dict order)
    rmembers,  \* structure -> sequence of member realizers (dict order)
    started,   \* structure -> its _started flag
    rlog,      \* propagation / update events of the last realizer call
    rret,      \* outcome of the last realizer call
    accepts,   \* realizer -> the constructs its emitter or updater expects
    build_ctx, \* the context variable build_ctx: unset, or a tuple of constructs
    build_list, \* the context variable build_list: unset, or the add queue
    tokens,    \* structure -> the tokens it holds that can still be reset
    blocks,    \* the with-blocks the client has open, innermost last
    built,     \* the realizers constructed so far
    exc,       \* TRUE while an exception unwinds the open with-blocks
    setobj,    \* the set objects alive, by identity; setobj[1] is Effector._buffer
    ebuffer,   \* effector -> identity of the set its _buffer attribute resolves to
    cset,      \* the set object the client holds in a variable, if any
    fired,     \* chunk -> number of fire calls made by the last fire_buffered
    eret       \* the last effector call

opsVars == <<pc, tape, nextId, ret>>
loadVars == <<lpc, ops, grads, lerr>>
buildVars == <<build_ctx, build_list, tokens, blocks, built, exc>>
realVars == <<rinputs, rmembers, started, rlog, rret, accepts, buildVars>>
effVars == <<setobj, ebuffer, cset, fired, eret>>
vars == <<pc, tape, nextId, ret, lpc, ops, grads, lerr,
          rinputs, rmembers, started, rlog, rret, accepts,
          build_ctx, build_list, tokens, blocks, built, exc,
          setobj, ebuffer, cset, fired, eret>>

\* ------------------------------------------------------------------ bounds

MaxNeg == 1
MaxVal == 2
MaxOperands == 2
\* The number of calls the client makes on the realizer network.
MaxCalls == 4
\* The number of steps of the client that builds a network with with-blocks.
MaxBuild == 6
\* The number of calls the client makes on effectors and on its own set.
MaxFire == 4

\* ------------------------------------------------------------- basic values

None == {}
Some(x) == {x}
Get(o) == CHOOSE x \in o : TRUE

Keys == {"a", "b", "c"}
Vals == (0 - MaxNeg)..MaxVal
Defaults == {None, Some(0), Some(1)}

\* Extended numbers: float("-inf"), a finite number, float("inf").
NegInf == [inf |-> 0 - 1, v |-> 0]
PosInf == [inf |-> 1, v |-> 0]
Fin(n) == [inf |-> 0, v |-> n]
ExtLess(x, y) ==
    \/ x.inf < y.inf
    \/ x.inf = 0 /\ y.inf = 0 /\ x.v < y.v
\* Python's min(x, y) and max(x, y): the first argument wins a tie.
ExtMin(x, y) == IF ExtLess(y, x) THEN y ELSE x
ExtMax(x, y) == IF ExtLess(x, y) THEN y ELSE x
ExtScale(x, f) == IF x.inf = 0 THEN Fin(x.v * f) ELSE x

RECURSIVE Pow2(_)
Pow2(n) == IF n <= 0 THEN 1 ELSE 2 * Pow2(n - 1)

RECURSIVE SumOver(_, _)
SumOver(f, S) ==
    IF S = {} THEN 0
    ELSE LET k == CHOOSE x \in S : TRUE IN f[k] + SumOver(f, S \ {k})

MaxOf(S) == CHOOSE x \in S : \A y \in S : y <= x
MinOf(S) == CHOOSE x \in S : \A y \in S : x <= y

Range(s) == {s[i] : i \in 1..Len(s)}
Perms(S) == {p \in [1..Cardinality(S) -> S] : Range(p) = S}
\* tuple(set(...)): the elements of S in the order the process's hashing
\* puts them, given as a permutation `order` of the key universe.
InOrder(order, S) == SelectSeq(order, LAMBDA x : x \in S)

\* ---------------------------------------------------------------- NumDict

\* NumDict(mapping, default): a new object with identity id.
NumDict(id, m, default, den) == [id |-> id, m |-> m, default |-> default, den |-> den]
EmptyMap == [k \in {} |-> 0]
KeysOf(d) == DOMAIN d.m
LenOf(d) == Cardinality(DOMAIN d.m)
\* d[k]: the explicit value or the default; a lookup error when neither.
HasKey(d, k) == k \in DOMAIN d.m \/ d.default # None
Lookup(d, k) == IF k \in DOMAIN d.m THEN d.m[k] ELSE Get(d.default)
Restrict(m, S) == [k \in S |-> m[k]]

\* The numdicts client code builds: explicit mapping over a subset of Keys.
MapsOver(V) == UNION {[S -> V] : S \in SUBSET Keys}
ClientDicts(V, D) == {[m |-> m, default |-> df] : m \in MapsOver(V), df \in D}
NumDicts == ClientDicts(Vals, Defaults)

\* ------------------------------------------------- tape and call outcomes

\* The interpreter state a library call threads through: the tape and the
\* next object identity.
St(t, n) == [tape |-> t, nid |-> n]
Alloc(st) == [st EXCEPT !.nid = @ + 1]
\* record_call(op, output, inputs, kwargs)
Rec(op, value, inputs, kwds) == [op |-> op, out |-> value.id, inputs |-> inputs, kwds |-> kwds]
record_call(st, op, value, inputs, kwds) ==
    [st EXCEPT !.tape = Append(@, Rec(op, value, inputs, kwds))]

Ok(st, v) == [st |-> st, status |-> "ok", val |-> v, err |-> ""]
Raise(st, e) == [st |-> st, status |-> "raise", val |-> NumDict(0, EmptyMap, None, 1), err |-> e]

\* ------------------------------------------------------ callable arguments

\* Key functions passed as keyfunc / func: named maps on keys.  "fst" is the
\* lambda k: k[0] of _grad_boltzmann, applied to pair keys.
KeyFuncs == {"ident", "toA", "bc", "rot"}
Apply(f, k) ==
    CASE f = "fst" -> k[1]
      [] f = "ident" -> k
      [] f = "toA" -> "a"
      [] f = "bc" -> (IF k = "b" THEN "c" ELSE k)
      [] f = "rot" -> (IF k = "a" THEN "b" ELSE IF k = "b" THEN "c" ELSE "a")
      [] f = "toB" -> "b"
      [] f = "toC" -> "c"
      [] f = "cb" -> (IF k = "c" THEN "b" ELSE k)
      [] f = "rotinv" -> (IF k = "b" THEN "a" ELSE IF k = "c" THEN "b" ELSE "c")
\* The key functions a client may pass to undo one of KeyFuncs.
InverseFuncs == {"ident", "toB", "toC", "cb", "rotinv"}

\* Predicates passed as func to keep / drop, given by the keys they accept.
Preds == {{"a"}, {"b", "c"}}
FuncArgs == {None} \cup {Some(p) : p \in Preds}
KeysArgs == {None} \cup {Some(s) : s \in {{}, {"a"}, {"a", "c"}}}

\* ---------------------------------------------------- primitive operations

\* `low or float("-inf")`: None and 0 are both falsy.
ClipBound(b, inf) == IF b = None \/ Get(b) = 0 THEN inf ELSE Fin(Get(b))

clip(st, d, low, high) ==
    LET lo == ClipBound(low, NegInf)
        hi == ClipBound(high, PosInf)
        mapping == [k \in KeysOf(d) |->
            ExtMax(ExtScale(lo, d.den), ExtMin(ExtScale(hi, d.den), Fin(d.m[k]))).v]
        value == NumDict(st.nid, mapping, d.default, d.den)
    IN Ok(record_call(Alloc(st), "clip", value, <<d>>, [low |-> lo, high |-> hi]), value)

\* A threshold that also retains the values equal to th.
threshold_inclusive(st, d, th, keep_default) ==
    LET mapping == Restrict(d.m, {k \in KeysOf(d) : th * d.den <= d.m[k]})
        default == IF d.default # None
                   THEN (IF keep_default \/ th * d.den <= Get(d.default)
                         THEN d.default ELSE None)
                   ELSE None
        value == NumDict(st.nid, mapping, default, d.den)
    IN Ok(record_call(Alloc(st), "threshold", value, <<d>>, [th |-> th]), value)

threshold(st, d, th, keep_default) ==
    LET mapping == Restrict(d.m, {k \in KeysOf(d) : th * d.den < d.m[k]})
        default == IF d.default # None
                   THEN (IF keep_default \/ th * d.den < Get(d.default)
                         THEN d.default ELSE None)
                   ELSE None
        value == NumDict(st.nid, mapping, default, d.den)
    IN Ok(record_call(Alloc(st), "threshold", value, <<d>>, [th |-> th]), value)

\* reduce_sum / reduce_max / reduce_min share their shape: the scalar goes to
\* the default (key omitted) or to the single entry at key.
Scalar(id, key, result, den) ==
    IF key = None THEN NumDict(id, EmptyMap, Some(result), den)
    ELSE NumDict(id, [k \in {Get(key)} |-> result], None, den)

reduce_sum(st, d, key) ==
    LET result == SumOver(d.m, KeysOf(d))
        value == Scalar(st.nid, key, result, d.den)
    IN Ok(record_call(Alloc(st), "reduce_sum", value, <<d>>, [key |-> key]), value)

reduce_max(st, d, key) ==
    IF KeysOf(d) = {} THEN Raise(st, "ValueError")
    ELSE LET result == MaxOf({d.m[k] : k \in KeysOf(d)})
             value == Scalar(st.nid, key, result, d.den)
         IN Ok(record_call(Alloc(st), "reduce_max", value, <<d>>, [key |-> key]), value)

reduce_min(st, d, key) ==
    IF KeysOf(d) = {} THEN Raise(st, "ValueError")
    ELSE LET result == MinOf({d.m[k] : k \in KeysOf(d)})
             value == Scalar(st.nid, key, result, d.den)
         IN Ok(record_call(Alloc(st), "reduce_min", value, <<d>>, [key |-> key]), value)

\* func(k) or k in keys, each guarded by `is not None`.
Selected(func, keys, k) ==
    \/ func # None /\ k \in Get(func)
    \/ keys # None /\ k \in Get(keys)
\* The condition drop tests: both negations, each guarded by `is not None`.
NotSelected(func, keys, k) ==
    /\ func # None /\ k \notin Get(func)
    /\ keys # None /\ k \notin Get(keys)

\* A keep that hands d itself back when it keeps every key.
keep_same(st, d, func, keys) ==
    IF func = None /\ keys = None THEN Raise(st, "ValueError")
    ELSE LET mapping == Restrict(d.m, {k \in KeysOf(d) : Selected(func, keys, k)})
             value == IF DOMAIN mapping = KeysOf(d) THEN d
                      ELSE NumDict(st.nid, mapping, d.default, d.den)
         IN Ok(record_call(Alloc(st), "keep", value, <<d>>,
                           [func |-> func, keys |-> keys]), value)

keep(st, d, func, keys) ==
    IF func = None /\ keys = None THEN Raise(st, "ValueError")
    ELSE LET mapping == Restrict(d.m, {k \in KeysOf(d) : Selected(func, keys, k)})
             value == NumDict(st.nid, mapping, d.default, d.den)
         IN Ok(record_call(Alloc(st), "keep", value, <<d>>,
                           [func |-> func, keys |-> keys]), value)

drop(st, d, func, keys) ==
    IF func = None /\ keys = None THEN Raise(st, "ValueError")
    ELSE LET mapping == Restrict(d.m, {k \in KeysOf(d) : NotSelected(func, keys, k)})
             value == NumDict(st.nid, mapping, d.default, d.den)
         IN Ok(record_call(Alloc(st), "drop", value, <<d>>,
                           [func |-> func, keys |-> keys]), value)

\* A transform_keys that leaves the default of d behind.
transform_keys_no_default(st, d, func) ==
    LET image == {Apply(func, k) : k \in KeysOf(d)}
        mapping == [j \in image |-> d.m[CHOOSE k \in KeysOf(d) : Apply(func, k) = j]]
        value == NumDict(st.nid, mapping, None, d.den)
    IN IF LenOf(d) # Cardinality(image) THEN Raise(st, "ValueError")
       ELSE Ok(record_call(Alloc(st), "transform_keys", value, <<d>>, [func |-> func]), value)

transform_keys(st, d, func) ==
    LET image == {Apply(func, k) : k \in KeysOf(d)}
        \* a dict comprehension: a later key overwrites an earlier one
        mapping == [j \in image |-> d.m[CHOOSE k \in KeysOf(d) : Apply(func, k) = j]]
        value == NumDict(st.nid, mapping, d.default, d.den)
    IN IF LenOf(d) # Cardinality(image) THEN Raise(st, "ValueError")
       ELSE Ok(record_call(Alloc(st), "transform_keys", value, <<d>>, [func |-> func]), value)

set_by(st, target, source, keyfunc) ==
    IF \E k \in KeysOf(target) : ~HasKey(source, Apply(keyfunc, k))
    THEN Raise(st, "KeyError")
    ELSE LET mapping == [k \in KeysOf(target) |-> Lookup(source, Apply(keyfunc, k))]
             value == NumDict(st.nid, mapping, None, source.den)
         IN Ok(record_call(Alloc(st), "set_by", value, <<target, source>>,
                           [keyfunc |-> keyfunc]), value)

\* A tuple of numdicts passed as one value (merge records `(ds,)`).
Tuple(ds) == [items |-> ds]
IsTuple(x) == "items" \in DOMAIN x

RECURSIVE ProdDen(_, _)
ProdDen(ds, i) == IF i > Len(ds) THEN 1 ELSE ds[i].den * ProdDen(ds, i + 1)
CommonDen(ds) ==
    IF \A i \in 1..Len(ds) : ds[i].den = ds[1].den THEN ds[1].den ELSE ProdDen(ds, 1)
\* The same numbers over the denominator den * f.
Scaled(d, f) ==
    [d EXCEPT !.m = [k \in DOMAIN d.m |-> d.m[k] * f],
              !.default = IF d.default = None THEN None ELSE Some(Get(d.default) * f),
              !.den = d.den * f]

RECURSIVE SumLen(_, _)
SumLen(ds, i) == IF i > Len(ds) THEN 0 ELSE LenOf(ds[i]) + SumLen(ds, i + 1)
\* data = {}; for d in ds: data.update(d)
RECURSIVE UpdateAll(_, _, _)
UpdateAll(data, ds, i) ==
    IF i > Len(ds) THEN data
    ELSE UpdateAll([k \in DOMAIN data \cup KeysOf(ds[i]) |->
                        IF k \in KeysOf(ds[i]) THEN ds[i].m[k] ELSE data[k]], ds, i + 1)

\* A merge that does not compare the key sets of its operands.
merge_unchecked(st, ds) ==
    IF Len(ds) = 0 THEN Raise(st, "ValueError")
    ELSE LET value == NumDict(st.nid, UpdateAll(EmptyMap, ds, 1), None, 1)
         IN Ok(record_call(Alloc(st), "merge", value, <<Tuple(ds)>>, <<>>), value)

\* A merge that takes the default of its first operand.
merge_first_default(st, ds) ==
    IF Len(ds) = 0 THEN Raise(st, "ValueError")
    ELSE IF Cardinality(UNION {KeysOf(ds[i]) : i \in 1..Len(ds)}) < SumLen(ds, 1)
    THEN Raise(st, "ValueError")
    ELSE LET den == CommonDen(ds)
             sc == [i \in 1..Len(ds) |-> Scaled(ds[i], den \div ds[i].den)]
             value == NumDict(st.nid, UpdateAll(EmptyMap, sc, 1), sc[1].default, den)
         IN Ok(record_call(Alloc(st), "merge", value, <<Tuple(ds)>>, <<>>), value)

merge(st, ds) ==
    IF Len(ds) = 0 THEN Raise(st, "ValueError")
    ELSE IF Cardinality(UNION {KeysOf(ds[i]) : i \in 1..Len(ds)}) < SumLen(ds, 1)
    THEN Raise(st, "ValueError")
    ELSE LET den == CommonDen(ds)
             sc == [i \in 1..Len(ds) |-> Scaled(ds[i], den \div ds[i].den)]
             data == UpdateAll(EmptyMap, sc, 1)
             default == IF Cardinality({sc[i].default : i \in 1..Len(ds)}) = 1
                        THEN sc[1].default ELSE None
             value == NumDict(st.nid, data, default, den)
         IN Ok(record_call(Alloc(st), "merge", value, <<Tuple(ds)>>, <<>>), value)

\* ------------------------------------------ operations built by composition

Reduce(reducer, st, d, key) ==
    CASE reducer = "reduce_sum" -> reduce_sum(st, d, key)
      [] reducer = "reduce_max" -> reduce_max(st, d, key)
      [] reducer = "reduce_min" -> reduce_min(st, d, key)

\* [reducer(g, key=k) for k, g in zip(keys, groups)]: the generators are lazy,
\* so each group's keep runs right before its reducer.
RECURSIVE ByLoop(_, _, _, _, _, _, _)
ByLoop(st, d, reducer, keyfunc, keys, i, acc) ==
    IF i > Len(keys) THEN Ok(st, Tuple(acc))
    ELSE LET selector == {x \in KeysOf(d) : Apply(keyfunc, x) = keys[i]}
             g == keep(st, d, None, Some(selector))
         IN IF g.status = "raise" THEN g
            ELSE LET r == Reduce(reducer, g.st, g.val, Some(keys[i]))
                 IN IF r.status = "raise" THEN r
                    ELSE ByLoop(r.st, d, reducer, keyfunc, keys, i + 1, Append(acc, r.val))

\* A by that records itself after its parts.
by_recorded(st, d, reducer, keyfunc, order) ==
    LET keys == InOrder(order, {Apply(keyfunc, k) : k \in KeysOf(d)})
        parts == ByLoop(st, d, reducer, keyfunc, keys, 1, <<>>)
        r == merge(parts.st, parts.val.items)
    IN IF parts.status = "raise" THEN parts
       ELSE IF r.status = "raise" THEN r
       ELSE Ok(record_call(r.st, "by", r.val, <<d>>, [keyfunc |-> keyfunc]), r.val)

by(st, d, reducer, keyfunc, order) ==
    LET keys == InOrder(order, {Apply(keyfunc, k) : k \in KeysOf(d)})
        parts == ByLoop(st, d, reducer, keyfunc, keys, 1, <<>>)
    IN IF parts.status = "raise" THEN parts ELSE merge(parts.st, parts.val.items)

sum_by(st, d, keyfunc, order) == by(st, d, "reduce_sum", keyfunc, order)
max_by(st, d, keyfunc, order) == by(st, d, "reduce_max", keyfunc, order)
min_by(st, d, keyfunc, order) == by(st, d, "reduce_min", keyfunc, order)

\* ------------------------------------------------------------- boltzmann

\* Temperatures are measured in units of 1/ln 2, so that exp(x / t) is the
\* rational 2^(x / t) whenever t divides x.
Temps == {1, 2}
\* (v - mx) / den is an integer for every entry and the default of x.
ExpDefined(d, t) ==
    LET den == d.den * t
        mx == MaxOf({d.m[k] : k \in KeysOf(d)})
        nums == {d.m[k] : k \in KeysOf(d)} \cup d.default
    IN IF KeysOf(d) = {} THEN TRUE ELSE \A v \in nums : (v - mx) % den = 0

\* Elementwise arithmetic of NumDict with a scalar: d / t, x - c, x.exp().
DivScalar(id, d, t) == NumDict(id, d.m, d.default, d.den * t)
SubScalar(id, x, c) ==
    NumDict(id, [k \in KeysOf(x) |-> x.m[k] - c],
            IF x.default = None THEN None ELSE Some(Get(x.default) - c), x.den)
\* The exponents of x are integers; the result is over the denominator
\* 2^(-emin).
ExpOf(id, x) ==
    LET exps == {x.m[k] \div x.den : k \in KeysOf(x)}
                   \cup {v \div x.den : v \in x.default}
        emin == MinOf(exps \cup {0})
    IN NumDict(id, [k \in KeysOf(x) |-> Pow2((x.m[k] \div x.den) - emin)],
               IF x.default = None THEN None
               ELSE Some(Pow2((Get(x.default) \div x.den) - emin)),
               Pow2(0 - emin))
\* with_default(numerators / denominator, default): both are over the same
\* denominator, which cancels.
Quotient(id, numerators, denominator, default) ==
    NumDict(id, numerators.m, default, denominator)

\* Bind(v, F) is F(v): `name = v` followed by the rest of the body.
Bind(v, F(_)) == F(v)

boltzmann(st, d, t) ==
    LET default == IF d.default # None THEN Some(0) ELSE None
    IN IF LenOf(d) > 0
       THEN Bind(DivScalar(st.nid, d, t), LAMBDA x :
            Bind(reduce_max(Alloc(st), x, None), LAMBDA rmax :
            Bind(ExpOf(rmax.st.nid + 1,
                       SubScalar(rmax.st.nid, x, Get(rmax.val.default))),
                 LAMBDA numerators :
            Bind(reduce_sum([rmax.st EXCEPT !.nid = @ + 2], numerators, None),
                 LAMBDA rsum :
            Bind(Quotient(rsum.st.nid + 1, numerators, Get(rsum.val.default), default),
                 LAMBDA value :
                Ok(record_call([rsum.st EXCEPT !.nid = @ + 2], "boltzmann", value,
                               <<d>>, [t |-> t]), value))))))
       ELSE Bind(NumDict(st.nid, EmptyMap, default, 1), LAMBDA value :
            Bind(record_call(Alloc(st), "boltzmann", value, <<d>>, [t |-> t]),
                 LAMBDA st2 :
                Ok(Alloc(st2), NumDict(st2.nid, EmptyMap, default, 1))))

\* ------------------------------------------------------ sigmoid and tanh

\* Elementwise arithmetic of NumDict: -x, c + x, c * x, 1 / x.  Values are
\* measured in units of ln 2, so that exp(v) is the rational 2^v.
NegOf(id, x) ==
    NumDict(id, [k \in KeysOf(x) |-> 0 - x.m[k]],
            IF x.default = None THEN None ELSE Some(0 - Get(x.default)), x.den)
AddScalar(id, x, c) ==
    NumDict(id, [k \in KeysOf(x) |-> c * x.den + x.m[k]],
            IF x.default = None THEN None ELSE Some(c * x.den + Get(x.default)), x.den)
MulScalar(id, x, c) ==
    NumDict(id, [k \in KeysOf(x) |-> c * x.m[k]],
            IF x.default = None THEN None ELSE Some(c * Get(x.default)), x.den)
RECURSIVE ProductOf(_)
ProductOf(S) ==
    IF S = {} THEN 1 ELSE LET x == CHOOSE y \in S : TRUE IN x * ProductOf(S \ {x})
\* 1 / x for positive x, over the product of the numerators of x.
Reciprocal(id, x) ==
    LET den == ProductOf({x.m[k] : k \in KeysOf(x)} \cup x.default)
    IN NumDict(id, [k \in KeysOf(x) |-> x.den * (den \div x.m[k])],
               IF x.default = None THEN None
               ELSE Some(x.den * (den \div Get(x.default))), den)

\* 1 / (1 + (-d).exp())
sigmoid(st, d) ==
    Bind(NegOf(st.nid, d), LAMBDA neg :
    Bind(ExpOf(st.nid + 1, neg), LAMBDA e :
    Bind(AddScalar(st.nid + 2, e, 1), LAMBDA sum :
        Ok([st EXCEPT !.nid = @ + 4], Reciprocal(st.nid + 3, sum)))))

\* (2 * sigmoid(d)) - 1
tanh(st, d) ==
    Bind(sigmoid(st, d), LAMBDA s :
    Bind(MulScalar(s.st.nid, s.val, 2), LAMBDA twice :
        Ok([s.st EXCEPT !.nid = @ + 2], AddScalar(s.st.nid + 1, twice, 0 - 1))))

\* ---------------------------------------------------------- backward rules

\* What a backward rule returns: a tuple of numdicts, or (boltzmann's rule on
\* an empty input) a bare numdict.
GTuple(items) == [shape |-> "tuple", items |-> items]
GBare(d) == [shape |-> "numdict", items |-> <<d>>]
\* True * x and False * x
Mask(b, x) == IF b THEN x ELSE 0
\* grads[k] is defined for every k of S
Defined(g, S) == g.default # None \/ S \subseteq KeysOf(g)

_grad_set_by(st, g, target, source, keyfunc, order) ==
    LET \* grads * NumDict(default=0)
        zero == NumDict(st.nid + 1, [k \in KeysOf(g) |-> 0],
                        IF g.default = None THEN None ELSE Some(0), g.den)
        r == sum_by([st EXCEPT !.nid = @ + 2], g, keyfunc, order)
    IN IF r.status = "raise" THEN r ELSE Ok(r.st, GTuple(<<zero, r.val>>))

_grad_threshold(st, g, d, th) ==
    IF ~Defined(g, KeysOf(d)) THEN Raise(st, "KeyError")
    ELSE LET mapping == [k \in KeysOf(d) |-> Mask(th * d.den < d.m[k], Lookup(g, k))]
             default == IF d.default = None THEN None ELSE g.default
         IN Ok(Alloc(st), GTuple(<<NumDict(st.nid, mapping, default, g.den)>>))

_grad_clip(st, g, d, low, high) ==
    IF ~Defined(g, KeysOf(d)) THEN Raise(st, "KeyError")
    ELSE LET mapping == [k \in KeysOf(d) |->
                 Mask(/\ ExtLess(ExtScale(low, d.den), Fin(d.m[k]))
                      /\ ExtLess(Fin(d.m[k]), ExtScale(high, d.den)), Lookup(g, k))]
         IN Ok(Alloc(st), GTuple(<<NumDict(st.nid, mapping, g.default, g.den)>>))

\* g = grads.default if key is None else grads[key]
Upstream(g, key) == IF key = None THEN g.default
                    ELSE IF HasKey(g, Get(key)) THEN Some(Lookup(g, Get(key))) ELSE None
UpstreamError(g, key) == key # None /\ ~HasKey(g, Get(key))

_grad_reduce_sum(st, g, d, key) ==
    IF UpstreamError(g, key) THEN Raise(st, "KeyError")
    ELSE IF Upstream(g, key) = None THEN Raise(st, "TypeError")
    ELSE LET val == Get(Upstream(g, key))
         IN Ok(Alloc(st), GTuple(<<NumDict(st.nid, [k \in KeysOf(d) |-> val], None, g.den)>>))

\* A rule that hands the upstream scalar to every key of d.
GradExtremumAll(st, g, d, key, reducer) ==
    IF UpstreamError(g, key) THEN Raise(st, "KeyError")
    ELSE LET r == Reduce(reducer, st, d, None)
         IN IF r.status = "raise" THEN r
            ELSE IF Upstream(g, key) = None THEN Raise(r.st, "TypeError")
            ELSE LET val == Get(Upstream(g, key))
                     mapping == [k \in KeysOf(d) |-> val]
                     default == IF d.default = None THEN None ELSE Some(val)
                 IN Ok([r.st EXCEPT !.nid = @ + 2],
                       GTuple(<<NumDict(r.st.nid + 1, mapping, default, g.den)>>))

\* g * isclose(d, reduce(d)): the reduction is a recorded call.
GradExtremum(st, g, d, key, reducer) ==
    IF UpstreamError(g, key) THEN Raise(st, "KeyError")
    ELSE LET r == Reduce(reducer, st, d, None)
         IN IF r.status = "raise" THEN r
            ELSE IF Upstream(g, key) = None THEN Raise(r.st, "TypeError")
            ELSE LET val == Get(Upstream(g, key))
                     ext == Get(r.val.default)
                     mapping == [k \in KeysOf(d) |-> val * Mask(d.m[k] = ext, 1)]
                     default == IF d.default = None THEN None
                                ELSE Some(val * Mask(Get(d.default) = ext, 1))
                 IN Ok([r.st EXCEPT !.nid = @ + 2],
                       GTuple(<<NumDict(r.st.nid + 1, mapping, default, g.den)>>))

_grad_reduce_max(st, g, d, key) == GradExtremum(st, g, d, key, "reduce_max")
_grad_reduce_min(st, g, d, key) == GradExtremum(st, g, d, key, "reduce_min")

\* tuple(NumDict({k: grads[k] for k in d}, grads.default) for d in ds).
\* Iterating a numdict yields its keys; iterating a tuple yields its
\* elements, which are never explicit keys of grads.
RECURSIVE GradMergeLoop(_, _, _, _, _)
GradMergeLoop(st, g, ds, i, acc) ==
    IF i > Len(ds) THEN Ok(st, GTuple(acc))
    ELSE LET d == ds[i]
             over == IF IsTuple(d) THEN Range(d.items) ELSE KeysOf(d)
             known == IF IsTuple(d) THEN {} ELSE KeysOf(d) \cap KeysOf(g)
         IN IF over # known /\ g.default = None THEN Raise(st, "KeyError")
            ELSE GradMergeLoop(Alloc(st), g, ds, i + 1,
                     Append(acc, NumDict(st.nid,
                         [k \in over |-> IF k \in known THEN g.m[k] ELSE Get(g.default)],
                         g.default, g.den)))

_grad_merge(st, g, ds) == GradMergeLoop(st, g, ds, 1, <<>>)

\* {(k, j): grads[k]*(value[k]*((j == k)-value[j])) for j in d for k in d}
Delta(id, g, d, value) ==
    NumDict(id,
        [p \in KeysOf(d) \X KeysOf(d) |->
            Lookup(g, p[1]) * value.m[p[1]]
                * (Mask(p[2] = p[1], value.den) - value.m[p[2]])],
        None, g.den * value.den * value.den)

_grad_boltzmann(st, g, d, t, order) ==
    IF LenOf(d) > 0
    THEN Bind(boltzmann(st, d, t), LAMBDA b :
         \* x = d / t
         IF ~Defined(g, KeysOf(d)) THEN Raise(Alloc(b.st), "KeyError")
         ELSE Bind(sum_by([b.st EXCEPT !.nid = @ + 2],
                          Delta(b.st.nid + 1, g, d, b.val), "fst", order),
                   LAMBDA r :
              IF r.status = "raise" THEN r
              ELSE Ok(Alloc(r.st), GTuple(<<NumDict(r.st.nid, r.val.m, None, r.val.den)>>))))
    ELSE Ok(st, GBare(g))

_grad_keep(st, g, d, func, keys) ==
    IF ~Defined(g, KeysOf(d)) THEN Raise(st, "KeyError")
    ELSE LET mapping == [k \in KeysOf(d) |-> Mask(Selected(func, keys, k), Lookup(g, k))]
         IN Ok(Alloc(st), GTuple(<<NumDict(st.nid, mapping, g.default, g.den)>>))

_grad_drop(st, g, d, func, keys) ==
    IF ~Defined(g, KeysOf(d)) THEN Raise(st, "KeyError")
    ELSE LET mapping == [k \in KeysOf(d) |-> Mask(NotSelected(func, keys, k), Lookup(g, k))]
         IN Ok(Alloc(st), GTuple(<<NumDict(st.nid, mapping, g.default, g.den)>>))

_grad_transform_keys(st, g, d, func) ==
    LET image == {Apply(func, k) : k \in KeysOf(d)}
    IN IF ~Defined(g, image) THEN Raise(st, "KeyError")
       ELSE Ok(Alloc(st), GTuple(<<NumDict(st.nid, [j \in image |-> Lookup(g, j)],
                                            g.default, g.den)>>))

\* --------------------------------------------------- import of ops.py

\* The decorator applications of ops.py in source order.
LoadSeq == <<
    [kind |-> "op", fn |-> "set_by"], [kind |-> "grad", fn |-> "set_by"],
    [kind |-> "op", fn |-> "threshold"], [kind |-> "grad", fn |-> "threshold"],
    [kind |-> "op", fn |-> "clip"], [kind |-> "grad", fn |-> "clip"],
    [kind |-> "op", fn |-> "reduce_sum"], [kind |-> "grad", fn |-> "reduce_sum"],
    [kind |-> "op", fn |-> "reduce_max"], [kind |-> "grad", fn |-> "reduce_max"],
    [kind |-> "op", fn |-> "reduce_min"], [kind |-> "grad", fn |-> "reduce_min"],
    [kind |-> "op", fn |-> "merge"], [kind |-> "grad", fn |-> "merge"],
    [kind |-> "op", fn |-> "boltzmann"], [kind |-> "grad", fn |-> "boltzmann"],
    [kind |-> "grad", fn |-> "keep"],
    [kind |-> "grad", fn |-> "drop"],
    [kind |-> "grad", fn |-> "transform_keys"] >>

\* The functions of ops.py whose body calls record_call.
Recorders == {"set_by", "threshold", "clip", "reduce_sum", "reduce_max", "reduce_min",
              "merge", "boltzmann", "keep", "drop", "transform_keys"}

LoadEnded == lerr \/ lpc > Len(LoadSeq)

\* @register_op: registry bookkeeping, the function is returned unchanged.
register_op ==
    /\ pc = "load" /\ ~LoadEnded
    /\ LoadSeq[lpc].kind = "op"
    /\ ops' = ops \cup {LoadSeq[lpc].fn}
    /\ lpc' = lpc + 1
    /\ UNCHANGED <<pc, tape, nextId, ret, grads, lerr, realVars, effVars>>

\* @register_grad(fn): attaches the rule, or fails when fn is not registered;
\* the exception ends the import.
register_grad ==
    /\ pc = "load" /\ ~LoadEnded
    /\ LoadSeq[lpc].kind = "grad"
    /\ IF LoadSeq[lpc].fn \in ops
       THEN /\ grads' = grads \cup {LoadSeq[lpc].fn}
            /\ lpc' = lpc + 1
            /\ UNCHANGED lerr
       ELSE /\ lerr' = TRUE
            /\ UNCHANGED <<grads, lpc>>
    /\ UNCHANGED <<pc, tape, nextId, ret, ops, realVars, effVars>>

\* The functions are then called on their definitions.
Loaded ==
    /\ pc = "load" /\ LoadEnded
    /\ pc' = "start"
    /\ UNCHANGED <<tape, nextId, ret, loadVars, realVars, effVars>>

\* ------------------------------------------------------ the client's calls

Obj(cd, id) == NumDict(id, cd.m, cd.default, 1)

\* ret: the call made, how it ended, what it returned (items: the returned
\* numdict, or the elements of the returned tuple), and what it was given
\* (args: the positional inputs of the forward call, kw: its other arguments,
\* up: the upstream gradient of a backward call).
NoRet == [call |-> "", status |-> "none", shape |-> "none", items |-> <<>>,
          err |-> "", args |-> <<>>, kw |-> <<>>, up |-> <<>>]

\* A forward call `name(args)` ended with outcome o.
Finish(name, args, kw, o) ==
    /\ pc' = "called"
    /\ tape' = o.st.tape
    /\ nextId' = o.st.nid
    /\ ret' = [call |-> name, status |-> o.status,
               shape |-> IF o.status = "ok" THEN "numdict" ELSE "none",
               items |-> IF o.status = "ok" THEN <<o.val>> ELSE <<>>,
               err |-> o.err, args |-> args, kw |-> kw, up |-> <<>>]
    /\ UNCHANGED <<loadVars, realVars, effVars>>

BoundArgs == {None} \cup {Some(v) : v \in Vals}
KeyArgs == {None, Some("a")}
\* Operands of merge and sources of set_by.
MergeDicts == ClientDicts({MaxVal}, Defaults)
SourceDicts == ClientDicts(1..MaxVal, Defaults)
TargetDicts == ClientDicts({0}, {None})

CallClip ==
    /\ pc = "start"
    /\ \E cd \in NumDicts, low \in BoundArgs, high \in BoundArgs :
        LET d == Obj(cd, nextId)
        IN Finish("clip", <<d>>, [low |-> low, high |-> high], clip(St(tape, nextId + 1), d, low, high))

CallThreshold ==
    /\ pc = "start"
    /\ \E cd \in NumDicts, th \in Vals, keep_default \in BOOLEAN :
        LET d == Obj(cd, nextId)
        IN Finish("threshold", <<d>>, [th |-> th, keep_default |-> keep_default],
                   threshold(St(tape, nextId + 1), d, th, keep_default))

CallReduceSum ==
    /\ pc = "start"
    /\ \E cd \in NumDicts, key \in KeyArgs :
        LET d == Obj(cd, nextId)
        IN Finish("reduce_sum", <<d>>, [key |-> key], reduce_sum(St(tape, nextId + 1), d, key))

CallReduceMax ==
    /\ pc = "start"
    /\ \E cd \in NumDicts, key \in KeyArgs :
        LET d == Obj(cd, nextId)
        IN Finish("reduce_max", <<d>>, [key |-> key], reduce_max(St(tape, nextId + 1), d, key))

CallReduceMin ==
    /\ pc = "start"
    /\ \E cd \in NumDicts, key \in KeyArgs :
        LET d == Obj(cd, nextId)
        IN Finish("reduce_min", <<d>>, [key |-> key], reduce_min(St(tape, nextId + 1), d, key))

CallKeep ==
    /\ pc = "start"
    /\ \E cd \in NumDicts, func \in FuncArgs, keys \in KeysArgs :
        LET d == Obj(cd, nextId)
        IN Finish("keep", <<d>>, [func |-> func, keys |-> keys], keep(St(tape, nextId + 1), d, func, keys))

CallDrop ==
    /\ pc = "start"
    /\ \E cd \in NumDicts, func \in FuncArgs, keys \in KeysArgs :
        LET d == Obj(cd, nextId)
        IN Finish("drop", <<d>>, [func |-> func, keys |-> keys], drop(St(tape, nextId + 1), d, func, keys))

CallTransformKeys ==
    /\ pc = "start"
    /\ \E cd \in NumDicts, func \in KeyFuncs :
        LET d == Obj(cd, nextId)
        IN Finish("transform_keys", <<d>>, [func |-> func],
                   transform_keys(St(tape, nextId + 1), d, func))

CallSetBy ==
    /\ pc = "start"
    /\ \E ct \in TargetDicts, cs \in SourceDicts, keyfunc \in KeyFuncs :
        LET target == Obj(ct, nextId)
            source == Obj(cs, nextId + 1)
        IN Finish("set_by", <<target, source>>, [keyfunc |-> keyfunc],
                  set_by(St(tape, nextId + 2), target, source, keyfunc))

CallMerge ==
    /\ pc = "start"
    /\ \E n \in 0..MaxOperands :
        \E cds \in [1..n -> MergeDicts] :
            LET ds == [i \in 1..n |-> Obj(cds[i], nextId + i - 1)]
            IN Finish("merge", ds, <<>>, merge(St(tape, nextId + n), ds))

CallBoltzmann ==
    /\ pc = "start"
    /\ \E cd \in NumDicts, t \in Temps :
        LET d == Obj(cd, nextId)
        IN /\ ExpDefined(d, t)
           /\ Finish("boltzmann", <<d>>, [t |-> t], boltzmann(St(tape, nextId + 1), d, t))

ByName(name, st, d, keyfunc, order) ==
    CASE name = "sum_by" -> sum_by(st, d, keyfunc, order)
      [] name = "max_by" -> max_by(st, d, keyfunc, order)
      [] name = "min_by" -> min_by(st, d, keyfunc, order)

CallBy ==
    /\ pc = "start"
    /\ \E cd \in NumDicts, keyfunc \in KeyFuncs, order \in Perms(Keys),
          name \in {"sum_by", "max_by", "min_by"} :
        LET d == Obj(cd, nextId)
        IN Finish(name, <<d>>, [keyfunc |-> keyfunc, order |-> order],
                   ByName(name, St(tape, nextId + 1), d, keyfunc, order))

CallSigmoid ==
    /\ pc = "start"
    /\ \E cd \in NumDicts :
        LET d == Obj(cd, nextId)
        IN Finish("sigmoid", <<d>>, <<>>, sigmoid(St(tape, nextId + 1), d))

CallTanh ==
    /\ pc = "start"
    /\ \E cd \in NumDicts :
        LET d == Obj(cd, nextId)
        IN Finish("tanh", <<d>>, <<>>, tanh(St(tape, nextId + 1), d))

\* ------------------------------------------- several calls in a row

\* The client made the calls of `name` one after the other; os are their
\* outcomes in order, each call starting from the state the one before left.
FinishSeq(name, args, kw, os) ==
    /\ pc' = "called"
    /\ tape' = os[Len(os)].st.tape
    /\ nextId' = os[Len(os)].st.nid
    /\ ret' = [call |-> name,
               status |-> IF \A i \in 1..Len(os) : os[i].status = "ok"
                          THEN "ok" ELSE "raise",
               shape |-> "results",
               items |-> [i \in 1..Len(os) |-> os[i].val],
               err |-> "", args |-> args, kw |-> kw, up |-> <<>>]
    /\ UNCHANGED <<loadVars, realVars, effVars>>

Disjoint(ds) ==
    \A i, j \in 1..Len(ds) : i # j => KeysOf(ds[i]) \cap KeysOf(ds[j]) = {}

\* merge(a, b); merge(b, a)
CallMergeBothWays ==
    /\ pc = "start"
    /\ \E ca, cb \in SourceDicts :
        LET a == Obj(ca, nextId)
            b == Obj(cb, nextId + 1)
        IN /\ Disjoint(<<a, b>>)
           /\ Bind(merge(St(tape, nextId + 2), <<a, b>>), LAMBDA ab :
              Bind(merge(ab.st, <<b, a>>), LAMBDA ba :
                 FinishSeq("merge_both_ways", <<a, b>>, <<>>, <<ab, ba>>)))

\* merge(merge(a, b), c); merge(a, merge(b, c)); merge(a, b, c)
CallMergeNested ==
    /\ pc = "start"
    /\ \E ca, cb, cc \in SourceDicts :
        LET a == Obj(ca, nextId)
            b == Obj(cb, nextId + 1)
            c == Obj(cc, nextId + 2)
        IN /\ Disjoint(<<a, b, c>>)
           /\ Bind(merge(St(tape, nextId + 3), <<a, b>>), LAMBDA ab :
              Bind(merge(ab.st, <<ab.val, c>>), LAMBDA ab_c :
              Bind(merge(ab_c.st, <<b, c>>), LAMBDA bc :
              Bind(merge(bc.st, <<a, bc.val>>), LAMBDA a_bc :
              Bind(merge(a_bc.st, <<a, b, c>>), LAMBDA abc :
                 FinishSeq("merge_nested", <<a, b, c>>, <<>>,
                           <<ab, ab_c, bc, a_bc, abc>>))))))

\* transform_keys(transform_keys(d, f), f_inv), for f injective on the keys
\* of d and f_inv undoing f on them.
CallTransformBack ==
    /\ pc = "start"
    /\ \E cd \in NumDicts, f \in KeyFuncs, f_inv \in InverseFuncs :
        LET d == Obj(cd, nextId)
        IN /\ \A j, k \in KeysOf(d) : Apply(f, j) = Apply(f, k) => j = k
           /\ \A k \in KeysOf(d) : Apply(f_inv, Apply(f, k)) = k
           /\ Bind(transform_keys(St(tape, nextId + 1), d, f), LAMBDA there :
              Bind(transform_keys(there.st, there.val, f_inv), LAMBDA back :
                 FinishSeq("transform_back", <<d>>, [func |-> f, inverse |-> f_inv],
                           <<there, back>>)))

\* ------------------------------------------- replay of the last tape record

\* The backward engine calls rule(upstream, *record.inputs, **record.kwds).
\* Upstream gradients are defined wherever the output is.
Weights == [k \in Keys |-> IF k = "a" THEN 1 ELSE IF k = "b" THEN 2 ELSE 3]
Upstreams(out) ==
    {[m |-> [k \in KeysOf(out) |-> Weights[k]], default |-> df] :
        df \in IF out.default = None THEN {None, Some(1)} ELSE {Some(1)}}

Last == tape[Len(tape)]
CanReplay(op) ==
    /\ pc = "called"
    /\ ret.status = "ok"
    /\ tape # <<>>
    /\ Last.op = op

FinishGrad(name, g, o) ==
    /\ pc' = "done"
    /\ tape' = o.st.tape
    /\ nextId' = o.st.nid
    /\ ret' = [call |-> name, status |-> o.status,
               shape |-> IF o.status = "ok" THEN o.val.shape ELSE "none",
               items |-> IF o.status = "ok" THEN o.val.items ELSE <<>>,
               err |-> o.err, args |-> ret.args, kw |-> ret.kw, up |-> <<g>>]
    /\ UNCHANGED <<loadVars, realVars, effVars>>

GradSetBy ==
    /\ CanReplay("set_by")
    /\ \E up \in Upstreams(ret.items[1]), order \in Perms(Keys) :
        LET g == Obj(up, nextId) IN
        FinishGrad("_grad_set_by", g,
            _grad_set_by(St(tape, nextId + 1), g, Last.inputs[1],
                         Last.inputs[2], Last.kwds.keyfunc, order))

GradThreshold ==
    /\ CanReplay("threshold")
    /\ \E up \in Upstreams(ret.items[1]) :
        LET g == Obj(up, nextId) IN
        FinishGrad("_grad_threshold", g,
            _grad_threshold(St(tape, nextId + 1), g, Last.inputs[1],
                            Last.kwds.th))

GradClip ==
    /\ CanReplay("clip")
    /\ \E up \in Upstreams(ret.items[1]) :
        LET g == Obj(up, nextId) IN
        FinishGrad("_grad_clip", g,
            _grad_clip(St(tape, nextId + 1), g, Last.inputs[1],
                       Last.kwds.low, Last.kwds.high))

GradReduceSum ==
    /\ CanReplay("reduce_sum")
    /\ \E up \in Upstreams(ret.items[1]) :
        LET g == Obj(up, nextId) IN
        FinishGrad("_grad_reduce_sum", g,
            _grad_reduce_sum(St(tape, nextId + 1), g, Last.inputs[1],
                             Last.kwds.key))

GradReduceMax ==
    /\ CanReplay("reduce_max")
    /\ \E up \in Upstreams(ret.items[1]) :
        LET g == Obj(up, nextId) IN
        FinishGrad("_grad_reduce_max", g,
            _grad_reduce_max(St(tape, nextId + 1), g, Last.inputs[1],
                             Last.kwds.key))

GradReduceMin ==
    /\ CanReplay("reduce_min")
    /\ \E up \in Upstreams(ret.items[1]) :
        LET g == Obj(up, nextId) IN
        FinishGrad("_grad_reduce_min", g,
            _grad_reduce_min(St(tape, nextId + 1), g, Last.inputs[1],
                             Last.kwds.key))

GradMerge ==
    /\ CanReplay("merge")
    /\ \E up \in Upstreams(ret.items[1]) :
        LET g == Obj(up, nextId) IN
        FinishGrad("_grad_merge", g,
            _grad_merge(St(tape, nextId + 1), g, Last.inputs))

GradBoltzmann ==
    /\ CanReplay("boltzmann")
    /\ \E up \in Upstreams(ret.items[1]), order \in Perms(Keys) :
        LET g == Obj(up, nextId) IN
        FinishGrad("_grad_boltzmann", g,
            _grad_boltzmann(St(tape, nextId + 1), g, Last.inputs[1],
                            Last.kwds.t, order))

GradKeep ==
    /\ CanReplay("keep")
    /\ \E up \in Upstreams(ret.items[1]) :
        LET g == Obj(up, nextId) IN
        FinishGrad("_grad_keep", g,
            _grad_keep(St(tape, nextId + 1), g, Last.inputs[1],
                       Last.kwds.func, Last.kwds.keys))

GradDrop ==
    /\ CanReplay("drop")
    /\ \E up \in Upstreams(ret.items[1]) :
        LET g == Obj(up, nextId) IN
        FinishGrad("_grad_drop", g,
            _grad_drop(St(tape, nextId + 1), g, Last.inputs[1],
                       Last.kwds.func, Last.kwds.keys))

GradTransformKeys ==
    /\ CanReplay("transform_keys")
    /\ \E up \in Upstreams(ret.items[1]) :
        LET g == Obj(up, nextId) IN
        FinishGrad("_grad_transform_keys", g,
            _grad_transform_keys(St(tape, nextId + 1), g, Last.inputs[1],
                                 Last.kwds.func))

\* ------------------------------------------------------------- realizers

\* The realizers of the network; each is the realizer of the construct of
\* the same name.  A and B are Structures, c1 and c2 Constructs; x and y are
\* constructs outside the network whose output is offered to it.
Structures == {"A", "B"}
Constructs == {"c1", "c2"}
Realizers == Structures \cup Constructs
External == {"x", "y"}
Symbols == Realizers \cup External
\* A second realizer object built for the construct c1, and the realizer
\* objects there are.
Replacement == "c1r"
Objects == Realizers \cup {Replacement}
\* realizer.construct
ConstructOf(r) == IF r = Replacement THEN "c1" ELSE r
\* realizer.construct.ctype
CType(r) ==
    CASE ConstructOf(r) = "A" -> "agent"
      [] ConstructOf(r) = "B" -> "subsystem"
      [] ConstructOf(r) = "c1" -> "chunks"
      [] ConstructOf(r) = "c2" -> "features"
\* self.emitter.sequence of a Structure: the construct types it propagates,
\* in order.
Sequence == <<"features", "chunks", "subsystem">>

\* Realizer.accepts
Accepts(r, source) == source \in accepts[r]

\* A dict, in insertion order: a sequence of [k |-> key, v |-> value].
DictKeys(dct) == [i \in 1..Len(dct) |-> dct[i].k]
HasItem(dct, k) == \E i \in 1..Len(dct) : dct[i].k = k
\* dct[k] = v
DictSet(dct, k, v) ==
    IF HasItem(dct, k)
    THEN [i \in 1..Len(dct) |-> IF dct[i].k = k THEN [k |-> k, v |-> v] ELSE dct[i]]
    ELSE Append(dct, [k |-> k, v |-> v])
\* del dct[k], for a key that may be absent
DictDel(dct, k) == SelectSeq(dct, LAMBDA e : e.k # k)

RECURSIVE Flatten(_, _)
Flatten(groups, i) ==
    IF i > Len(groups) THEN <<>> ELSE groups[i].v \o Flatten(groups, i + 1)
\* Structure.values(): the member realizers, by construct type in the order
\* the types were first added, then in the order of addition.
Values(mem, s) == [i \in 1..Len(Flatten(mem[s], 1)) |-> Flatten(mem[s], 1)[i].v]
\* construct in self
IsMemberOf(mem, s, r) ==
    \E i \in 1..Len(Values(mem, s)) : ConstructOf(Values(mem, s)[i]) = r
\* Structure.values(ctype)
ValuesOf(mem, s, ctype) == SelectSeq(Values(mem, s), LAMBDA r : CType(r) = ctype)

\* Realizer.offer / Structure.offer: the link is stored when self accepts
\* the construct; a Structure passes the offer on to its members.  The with
\* block of Structure.offer constructs no realizer.
RECURSIVE offer(_, _, _, _, _)
RECURSIVE OfferEach(_, _, _, _, _, _)
offer(inp, mem, r, construct, callback) ==
    LET own == IF Accepts(r, construct)
               THEN [inp EXCEPT ![r] = DictSet(@, construct, callback)]
               ELSE inp
    IN IF r \in Structures
       THEN OfferEach(own, mem, Values(mem, r), 1, construct, callback)
       ELSE own
OfferEach(inp, mem, rs, i, construct, callback) ==
    IF i > Len(rs) THEN inp
    ELSE OfferEach(offer(inp, mem, rs[i], construct, callback), mem, rs, i + 1,
                   construct, callback)

\* Realizer.drop / Structure.drop
RECURSIVE drop_link(_, _, _, _)
RECURSIVE DropEach(_, _, _, _, _)
\* A Structure.drop that stops at self.
drop_own(inp, mem, r, construct) == [inp EXCEPT ![r] = DictDel(@, construct)]
drop_link(inp, mem, r, construct) ==
    LET own == [inp EXCEPT ![r] = DictDel(@, construct)]
    IN IF r \in Structures THEN DropEach(own, mem, Values(mem, r), 1, construct)
       ELSE own
DropEach(inp, mem, rs, i, construct) ==
    IF i > Len(rs) THEN inp
    ELSE DropEach(drop_link(inp, mem, rs[i], construct), mem, rs, i + 1, construct)

\* The Structures whose with-block an offer to each of rs enters and leaves:
\* `with self` of Structure.offer, in the Structure and in those below it.
RECURSIVE OfferEntered(_, _, _)
OfferEntered(mem, rs, i) ==
    IF i > Len(rs) THEN {}
    ELSE (IF rs[i] \in Structures
          THEN {rs[i]} \cup OfferEntered(mem, Values(mem, rs[i]), 1) ELSE {})
         \cup OfferEntered(mem, rs, i + 1)
\* __enter__ replaces the tokens self holds and __exit__ uses them up: after
\* a block that was entered and left, self holds no token that can be reset.
Spend(toks, entered) == [s \in Structures |-> IF s \in entered THEN None ELSE toks[s]]

\* Structure.update_links
RECURSIVE LinkMembers(_, _, _, _, _)
LinkMembers(inp, mem, rs, i, target) ==
    IF i > Len(rs) THEN inp
    ELSE IF ConstructOf(rs[i]) = ConstructOf(target)
    THEN LinkMembers(inp, mem, rs, i + 1, target)
    ELSE LinkMembers(offer(offer(inp, mem, rs[i], ConstructOf(target), target),
                           mem, target, ConstructOf(rs[i]), rs[i]),
                     mem, rs, i + 1, target)
RECURSIVE LinkInputs(_, _, _, _, _)
LinkInputs(inp, mem, items, i, target) ==
    IF i > Len(items) THEN inp
    ELSE LinkInputs(offer(inp, mem, target, items[i].k, items[i].v), mem, items,
                    i + 1, target)
update_links(inp, mem, s, target) ==
    Bind(LinkMembers(inp, mem, Values(mem, s), 1, target), LAMBDA linked :
        LinkInputs(linked, mem, linked[s], 1, target))

\* The Structures that the offers of update_links enter.
LinksEntered(inp, mem, s, target) ==
    LET others == SelectSeq(Values(mem, s), LAMBDA m : m # target)
    IN OfferEntered(mem, others, 1)
       \cup (IF others # <<>> \/ inp[s] # <<>>
             THEN OfferEntered(mem, <<target>>, 1) ELSE {})

\* d = self._dict.setdefault(ctype, {}); d[realizer.construct] = realizer
DictAdd(groups, r) ==
    IF HasItem(groups, CType(r))
    THEN [i \in 1..Len(groups) |->
            IF groups[i].k = CType(r)
            THEN [k |-> groups[i].k, v |-> DictSet(groups[i].v, ConstructOf(r), r)]
            ELSE groups[i]]
    ELSE Append(groups, [k |-> CType(r), v |-> <<[k |-> ConstructOf(r), v |-> r]>>])

NoEvents == <<>>
\* The outcome of the n-th call of the client on the network.
Called(call, target, status, err) ==
    [call |-> call, target |-> target, status |-> status, err |-> err,
     n |-> rret.n + 1]
MoreCalls == rret.n < MaxCalls

\* Structure.add(realizer).  A is the agent and B a subsystem: B may be added
\* to A, a Construct to either.
add(s, r) ==
    /\ MoreCalls /\ ~exc
    /\ s \in Structures /\ r \in Objects /\ {s, r} \subseteq built
    /\ r \in Structures => (s = "A" /\ r = "B")
    /\ LET mem == [rmembers EXCEPT ![s] = DictAdd(@, r)]
       IN /\ rmembers' = mem
          /\ rinputs' = update_links(rinputs, mem, s, r)
          /\ tokens' = Spend(tokens, LinksEntered(rinputs, mem, s, r))
    /\ rlog' = NoEvents
    /\ rret' = Called("add", s, "ok", "")
    /\ UNCHANGED <<started, accepts, opsVars, loadVars, effVars>>
    /\ UNCHANGED <<build_ctx, build_list, blocks, built, exc>>

\* The client offers the output of an outside construct to a realizer.
offer_input(r, construct) ==
    /\ MoreCalls /\ ~exc
    /\ r \in Realizers /\ r \in built /\ construct \in External
    /\ rinputs' = offer(rinputs, rmembers, r, construct, construct)
    /\ tokens' = Spend(tokens, OfferEntered(rmembers, <<r>>, 1))
    /\ rlog' = NoEvents
    /\ rret' = Called("offer", r, "ok", "")
    /\ UNCHANGED <<rmembers, started, accepts, opsVars, loadVars, effVars>>
    /\ UNCHANGED <<build_ctx, build_list, blocks, built, exc>>

\* Realizer.clear_inputs: `for construct in self.inputs: self.drop(construct)`
\* deletes from the dict it iterates; the iterator raises RuntimeError when
\* asked for the next key after the first deletion.
RealizerClearInputs(inp, mem, r) ==
    IF inp[r] = <<>> THEN [inp |-> inp, status |-> "ok", err |-> ""]
    ELSE [inp |-> drop_link(inp, mem, r, inp[r][1].k),
          status |-> "raise", err |-> "RuntimeError"]

\* Structure.clear_inputs: the members drop every input of self, then
\* Realizer.clear_inputs.
RECURSIVE DropInputs(_, _, _, _, _)
DropInputs(inp, mem, s, keys, i) ==
    IF i > Len(keys) THEN inp
    ELSE DropInputs(DropEach(inp, mem, Values(mem, s), 1, keys[i]), mem, s, keys, i + 1)
StructureClearInputs(inp, mem, s) ==
    RealizerClearInputs(DropInputs(inp, mem, s, DictKeys(inp[s]), 1), mem, s)

clear_inputs(r) ==
    /\ MoreCalls /\ ~exc
    /\ r \in Realizers /\ r \in built
    /\ LET o == IF r \in Structures THEN StructureClearInputs(rinputs, rmembers, r)
                ELSE RealizerClearInputs(rinputs, rmembers, r)
       IN /\ rinputs' = o.inp
          /\ rret' = Called("clear_inputs", r, o.status, o.err)
    /\ rlog' = NoEvents
    /\ UNCHANGED <<rmembers, started, accepts, opsVars, loadVars, effVars, buildVars>>

Event(ev, r) == [ev |-> ev, r |-> r]

\* Structure.start: _update_output, then start of every member Structure,
\* then _started = True.
RECURSIVE StartAll(_, _, _)
StartAll(mem, rs, i) ==
    IF i > Len(rs) THEN {}
    ELSE (IF rs[i] \in Structures
          THEN {rs[i]} \cup StartAll(mem, Values(mem, rs[i]), 1) ELSE {})
         \cup StartAll(mem, rs, i + 1)
RECURSIVE StartLog(_, _, _)
StartLog(mem, rs, i) ==
    IF i > Len(rs) THEN <<>>
    ELSE (IF rs[i] \in Structures
          THEN <<Event("output", rs[i])>> \o StartLog(mem, Values(mem, rs[i]), 1)
          ELSE <<>>)
         \o StartLog(mem, rs, i + 1)
start(s) ==
    /\ MoreCalls /\ ~exc
    /\ s \in Structures /\ s \in built
    /\ started' = [r \in Structures |-> started[r] \/ r \in StartAll(rmembers, <<s>>, 1)]
    /\ rlog' = StartLog(rmembers, <<s>>, 1)
    /\ rret' = Called("start", s, "ok", "")
    /\ UNCHANGED <<rinputs, rmembers, accepts, opsVars, loadVars, effVars, buildVars>>

\* Construct._propagate / Structure._propagate
RECURSIVE Propagate(_, _)
RECURSIVE PropagateEach(_, _, _)
RECURSIVE PropagateTypes(_, _, _)
Propagate(mem, r) ==
    IF r \in Structures
    THEN PropagateTypes(mem, r, 1) \o <<Event("output", r)>>
    ELSE <<Event("propagate", r)>>
PropagateEach(mem, rs, i) ==
    IF i > Len(rs) THEN <<>> ELSE Propagate(mem, rs[i]) \o PropagateEach(mem, rs, i + 1)
PropagateTypes(mem, s, i) ==
    IF i > Len(Sequence) THEN <<>>
    ELSE PropagateEach(mem, ValuesOf(mem, s, Sequence[i]), 1) \o PropagateTypes(mem, s, i + 1)

\* Construct._update / Structure._update: the updater of self, then the
\* members.
RECURSIVE Update(_, _)
RECURSIVE UpdateEach(_, _, _)
\* An _update that calls the members before the updater of self.
UpdateMembersFirst(mem, r) ==
    IF r \in Structures
    THEN UpdateEach(mem, Values(mem, r), 1) \o <<Event("update", r)>>
    ELSE <<Event("update", r)>>
Update(mem, r) ==
    IF r \in Structures
    THEN <<Event("update", r)>> \o UpdateEach(mem, Values(mem, r), 1)
    ELSE <<Event("update", r)>>
UpdateEach(mem, rs, i) ==
    IF i > Len(rs) THEN <<>> ELSE Update(mem, rs[i]) \o UpdateEach(mem, rs, i + 1)

\* A step that never asks whether the structure was started.
StepUnchecked(s) == FALSE
\* Structure.step: the check of _started, then Realizer.step.
MustStart(s) == ~started[s]
step(r) ==
    /\ MoreCalls /\ ~exc
    /\ r \in Realizers /\ r \in built
    /\ IF r \in Structures /\ MustStart(r)
       THEN /\ rlog' = NoEvents
            /\ rret' = Called("step", r, "raise", "ValueError")
       ELSE /\ rlog' = Propagate(rmembers, r) \o Update(rmembers, r)
            /\ rret' = Called("step", r, "ok", "")
    /\ UNCHANGED <<rinputs, rmembers, started, accepts, opsVars, loadVars, effVars, buildVars>>

\* del self._dict[key.ctype][key]
DictRemove(groups, r) ==
    [i \in 1..Len(groups) |-> [k |-> groups[i].k, v |-> DictDel(groups[i].v, r)]]
\* The realizers from which a call deleted the link from construct.
RealizerSeq == <<"A", "B", "c1", "c2">>
Unlinked(before, after, construct) ==
    SelectSeq(RealizerSeq, LAMBDA m :
        HasItem(before[m], construct) /\ ~HasItem(after[m], construct))
DropEvents(before, after, construct) ==
    [i \in 1..Len(Unlinked(before, after, construct)) |->
        Event("drop", Unlinked(before, after, construct)[i])]

\* Structure.__delitem__ with a symbol for key: the links from the construct
\* are dropped in self and below, then the construct leaves self._dict, which
\* raises KeyError when it is not there.
delitem(net, s, c) ==
    IF net.status # "ok" THEN net
    ELSE [inp |-> drop_link(net.inp, net.mem, s, c),
          mem |-> IF IsMemberOf(net.mem, s, c)
                  THEN [net.mem EXCEPT ![s] = DictRemove(@, c)] ELSE net.mem,
          status |-> IF IsMemberOf(net.mem, s, c) THEN "ok" ELSE "raise"]
\* Structure.remove(*constructs)
RECURSIVE RemoveAll(_, _, _, _)
RemoveAll(net, s, constructs, i) ==
    IF i > Len(constructs) THEN net
    ELSE RemoveAll(delitem(net, s, constructs[i]), s, constructs, i + 1)

remove(s, c) ==
    /\ MoreCalls /\ ~exc
    /\ s \in Structures /\ c \in Realizers /\ {s, c} \subseteq built
    /\ LET net == RemoveAll([inp |-> rinputs, mem |-> rmembers, status |-> "ok"],
                            s, <<c>>, 1)
       IN /\ rinputs' = net.inp
          /\ rmembers' = net.mem
          /\ rlog' = <<Event("remove", c)>> \o DropEvents(rinputs, net.inp, c)
          /\ rret' = Called("remove", s, net.status,
                            IF net.status = "ok" THEN "" ELSE "KeyError")
    /\ UNCHANGED <<started, accepts, opsVars, loadVars, effVars, buildVars>>

\* Structure.clear: self.remove(*self.keys())
clear(s) ==
    /\ MoreCalls /\ ~exc
    /\ s \in Structures /\ s \in built
    /\ LET net == RemoveAll([inp |-> rinputs, mem |-> rmembers, status |-> "ok"],
                            s, Values(rmembers, s), 1)
       IN /\ rinputs' = net.inp
          /\ rmembers' = net.mem
          /\ rret' = Called("clear", s, net.status,
                            IF net.status = "ok" THEN "" ELSE "KeyError")
    /\ rlog' = NoEvents
    /\ UNCHANGED <<started, accepts, opsVars, loadVars, effVars, buildVars>>

\* ------------------------------------------------------- with-blocks

\* A with-block the client has open: the structure, and for reference the
\* values of build_ctx and build_list when it was entered and the realizers
\* constructed while it was the innermost open block.
Block(s) == [s |-> s, ctx |-> build_ctx, list |-> build_list, made |-> {}]
MoreBuild == rret.n < MaxBuild

\* Structure.__enter__: `with s:` in the client.
enter(s) ==
    /\ MoreBuild /\ ~exc
    /\ s \in Structures /\ s \in built
    /\ tokens' = [tokens EXCEPT ![s] = Some([ctx |-> build_ctx, list |-> build_list])]
    /\ build_ctx' = Some((IF build_ctx = None THEN <<>> ELSE Get(build_ctx)) \o <<s>>)
    /\ build_list' = Some(<<>>)
    /\ blocks' = Append(blocks, Block(s))
    /\ rlog' = NoEvents
    /\ rret' = Called("enter", s, "ok", "")
    /\ UNCHANGED <<rinputs, rmembers, started, accepts, built, exc, opsVars, loadVars, effVars>>

\* Realizer.__init__ / Structure.__init__ of a realizer not yet constructed:
\* _update_add_queue appends it to the add queue, when there is one.
construct(r) ==
    /\ MoreBuild /\ ~exc
    /\ r \in Realizers \ built
    /\ built' = built \cup {r}
    /\ build_list' = IF build_list = None THEN None ELSE Some(Append(Get(build_list), r))
    /\ blocks' = IF blocks = <<>> THEN blocks
                 ELSE [blocks EXCEPT ![Len(blocks)].made = @ \cup {r}]
    /\ rlog' = NoEvents
    /\ rret' = Called("construct", r, "ok", "")
    /\ UNCHANGED <<rinputs, rmembers, started, accepts, build_ctx, tokens, exc,
                   opsVars, loadVars, effVars>>

\* for realizer in add_list: self.add(realizer)
RECURSIVE AddAll(_, _, _, _)
AddAll(net, s, add_list, i) ==
    IF i > Len(add_list) THEN net
    ELSE Bind(DictAdd(net.mem[s], add_list[i]), LAMBDA d :
         Bind([net.mem EXCEPT ![s] = d], LAMBDA mem :
            AddAll([inp |-> update_links(net.inp, mem, s, add_list[i]),
                    mem |-> mem,
                    toks |-> Spend(net.toks, LinksEntered(net.inp, mem, s, add_list[i]))],
                   s, add_list, i + 1)))

\* Structure.__exit__: the end of the innermost open block, reached by the
\* client or by an exception on its way out.  The realizers of the add queue
\* are added, then the context variables are reset with the tokens self
\* holds; ContextVar.reset raises RuntimeError for a token already used.
exit(s) ==
    /\ MoreBuild
    /\ blocks # <<>> /\ s = blocks[Len(blocks)].s
    /\ LET net == AddAll([inp |-> rinputs, mem |-> rmembers, toks |-> tokens],
                         s, Get(build_list), 1)
           raised == net.toks[s] = None
       IN /\ rinputs' = net.inp
          /\ rmembers' = net.mem
          /\ tokens' = Spend(net.toks, {s})
          /\ build_ctx' = IF raised THEN build_ctx ELSE Get(net.toks[s]).ctx
          /\ build_list' = IF raised THEN build_list ELSE Get(net.toks[s]).list
          /\ exc' = ((exc \/ raised) /\ Len(blocks) > 1)
          /\ rret' = IF raised THEN Called("exit", s, "raise", "RuntimeError")
                     ELSE Called("exit", s, "ok", "")
    /\ blocks' = SubSeq(blocks, 1, Len(blocks) - 1)
    /\ rlog' = NoEvents
    /\ UNCHANGED <<started, accepts, built, opsVars, loadVars, effVars>>

\* What emitters and updaters expect is fixed when the realizers are built.
AcceptTables == {
    [r \in Objects |-> Symbols \ {ConstructOf(r)}],
    [r \in Objects |->
        CASE r = "A" -> {"x"}
          [] r = "B" -> {"x", "c1"}
          [] r = "c1" -> {"x", "y", "c2", "B"}
          [] r = "c2" -> {"c1"}
          [] r = Replacement -> {"y", "c2"}] }

\* ---------------------------------------------------------------- Effector

Effectors == {"E1", "E2"}
Chunks == {"ch1", "ch2"}
\* The class attribute `_buffer = set()`: one set object, which every
\* effector without an attribute of its own resolves self._buffer to.
ClassBuffer == 1
\* self.buffer (the property's getter)
buffer(e) == setobj[ebuffer[e]]
MoreFire == eret.n < MaxFire
ECalled(call, e) == [n |-> eret.n + 1, call |-> call, e |-> e]

\* A setter that stores the assigned set itself.
buffer_alias(objs, value) == [objs |-> objs, ref |-> value]

\* self._buffer = value.copy(): a new set object with the elements of value.
buffer_setter(objs, value) ==
    [objs |-> Append(objs, objs[value]), ref |-> Len(objs) + 1]

\* The client builds a set S and keeps it in a variable.
client_set(S) ==
    /\ MoreFire
    /\ setobj' = Append(setobj, S)
    /\ cset' = Some(Len(setobj) + 1)
    /\ eret' = ECalled("client_set", "")
    /\ UNCHANGED <<ebuffer, fired, opsVars, loadVars, realVars>>

\* e.buffer = value, value being the client's set.
set_buffer(e) ==
    /\ MoreFire
    /\ cset # None
    /\ LET r == buffer_setter(setobj, Get(cset))
       IN /\ setobj' = r.objs
          /\ ebuffer' = [ebuffer EXCEPT ![e] = r.ref]
    /\ eret' = ECalled("set_buffer", e)
    /\ UNCHANGED <<cset, fired, opsVars, loadVars, realVars>>

\* The client adds c to its set, or removes it when it is there.
client_change(c) ==
    /\ MoreFire
    /\ cset # None
    /\ setobj' = [setobj EXCEPT ![Get(cset)] = IF c \in @ THEN @ \ {c} ELSE @ \cup {c}]
    /\ eret' = ECalled("client_change", "")
    /\ UNCHANGED <<ebuffer, cset, fired, opsVars, loadVars, realVars>>

\* e.buffer.add(c): a chunk is selected for execution.
buffer_add(e, c) ==
    /\ MoreFire
    /\ setobj' = [setobj EXCEPT ![ebuffer[e]] = @ \cup {c}]
    /\ eret' = ECalled("buffer_add", e)
    /\ UNCHANGED <<ebuffer, cset, fired, opsVars, loadVars, realVars>>

\* for chunk in self.buffer: self.fire(chunk); then self.buffer.clear().
\* fire is abstract; it is taken to leave the buffer alone.
fire_buffered(e) ==
    /\ MoreFire
    /\ fired' = [c \in Chunks |-> IF c \in buffer(e) THEN 1 ELSE 0]
    /\ setobj' = [setobj EXCEPT ![ebuffer[e]] = {}]
    /\ eret' = ECalled("fire_buffered", e)
    /\ UNCHANGED <<ebuffer, cset, opsVars, loadVars, realVars>>

InitEff ==
    /\ setobj = <<{}>>
    /\ ebuffer = [e \in Effectors |-> ClassBuffer]
    /\ cset = None
    /\ fired = [c \in Chunks |-> 0]
    /\ eret = [n |-> 0, call |-> "", e |-> ""]

\* ------------------------------------------------------------ specification

InitOps ==
    /\ pc = "load"
    /\ tape = <<>>
    /\ nextId = 1
    /\ ret = NoRet
    /\ lpc = 1
    /\ ops = {}
    /\ grads = {}
    /\ lerr = FALSE

\* Realizer.__init__ / Structure.__init__: no links, no members, not started.
InitReal ==
    /\ rinputs = [r \in Objects |-> <<>>]
    /\ rmembers = [s \in Structures |-> <<>>]
    /\ started = [s \in Structures |-> FALSE]
    /\ rlog = NoEvents
    /\ rret = [call |-> "", target |-> "", status |-> "none", err |-> "", n |-> 0]
    /\ build_ctx = None
    /\ build_list = None
    /\ tokens = [s \in Structures |-> None]
    /\ blocks = <<>>
    /\ exc = FALSE

Init ==
    /\ InitOps
    /\ InitReal
    /\ InitEff
    /\ accepts = [r \in Objects |-> {}]
    /\ built = {}

Next ==
    \/ register_op
    \/ register_grad
    \/ Loaded
    \/ CallSetBy
    \/ CallThreshold
    \/ CallClip
    \/ CallReduceSum
    \/ CallReduceMax
    \/ CallReduceMin
    \/ CallMerge
    \/ CallBy
    \/ CallSigmoid
    \/ CallTanh
    \/ CallBoltzmann
    \/ CallKeep
    \/ CallDrop
    \/ CallTransformKeys
    \/ GradSetBy
    \/ GradThreshold
    \/ GradClip
    \/ GradReduceSum
    \/ GradReduceMax
    \/ GradReduceMin
    \/ GradMerge
    \/ GradBoltzmann
    \/ GradKeep
    \/ GradDrop
    \/ GradTransformKeys

Spec == Init /\ [][Next]_vars

\* Calls of the operations one after the other, after the import.
NextA ==
    \/ register_op
    \/ register_grad
    \/ Loaded
    \/ CallMergeBothWays
    \/ CallMergeNested
    \/ CallTransformBack

SpecA == Init /\ [][NextA]_vars

\* The realizer network on its own.
InitR ==
    /\ InitOps
    /\ InitReal
    /\ InitEff
    /\ accepts \in AcceptTables
    /\ built = Realizers

NextR ==
    \/ \E s \in Structures, r \in Realizers : add(s, r)
    \/ \E r \in Realizers, c \in External : offer_input(r, c)
    \/ \E r \in Realizers : clear_inputs(r)
    \/ \E s \in Structures : start(s)
    \/ \E r \in Realizers : step(r)
    \/ \E s \in Structures, c \in Realizers : remove(s, c)
    \/ \E s \in Structures : clear(s)

SpecR == InitR /\ [][NextR]_vars

\* The construction of a network with with-blocks: the agent A exists, the
\* other realizers are constructed by the client.
InitW ==
    /\ InitOps
    /\ InitReal
    /\ InitEff
    /\ accepts \in AcceptTables
    /\ built = {"A"}

NextW ==
    \/ \E s \in Structures : enter(s)
    \/ \E r \in Realizers : construct(r)
    \/ \E s \in Structures : exit(s)
    \/ \E r \in Realizers, c \in External : offer_input(r, c)

SpecW == InitW /\ [][NextW]_vars

\* Effectors in use: buffers are filled, assigned and fired.
InitE ==
    /\ InitOps
    /\ InitReal
    /\ InitEff
    /\ accepts = [r \in Objects |-> {}]
    /\ built = {}

NextE ==
    \/ \E S \in SUBSET Chunks : client_set(S)
    \/ \E e \in Effectors : set_buffer(e)
    \/ \E c \in Chunks : client_change(c)
    \/ \E e \in Effectors, c \in Chunks : buffer_add(e, c)
    \/ \E e \in Effectors : fire_buffered(e)

SpecE == InitE /\ [][NextE]_vars

\* A network that is only built: realizers, one of them a second realizer
\* for c1, are added and outside constructs are offered.
InitL ==
    /\ InitOps
    /\ InitReal
    /\ InitEff
    /\ accepts \in AcceptTables
    /\ built = Objects

NextL ==
    \/ \E s \in Structures, r \in Objects : add(s, r)
    \/ \E r \in Realizers, c \in External : offer_input(r, c)

SpecL == InitL /\ [][NextL]_vars

\* ------------------------------------------------------------------ claims

Returned(name) == pc = "called" /\ ret.call = name /\ ret.status = "ok"
Raised(name) == pc = "called" /\ ret.call = name /\ ret.status = "raise"
Primitives == Recorders

\* C1: a key k of d is absent from drop(d, func, keys) exactly when func(k)
\* is true or k is in keys, also when only one of func and keys is given; so
\* drop retains exactly the keys that keep removes.
C1_DropComplementsKeep ==
    Returned("drop") =>
        LET d == ret.args[1]
            out == ret.items[1]
            func == ret.kw.func
            keys == ret.kw.keys
            kept == keep(St(<<>>, 0), d, func, keys).val
        IN /\ \A k \in KeysOf(d) :
                 (k \notin KeysOf(out)) <=>
                     \/ func # None /\ k \in Get(func)
                     \/ keys # None /\ k \in Get(keys)
           /\ KeysOf(out) = KeysOf(d) \ KeysOf(kept)

\* C2: for bounds low <= high (0 included, an omitted bound unbounded),
\* clip(d, low, high) has the keys of d and each value is
\* max(low, min(high, d[k])).
C2_ClipClamps ==
    (/\ Returned("clip")
     /\ (ret.kw.low # None /\ ret.kw.high # None => Get(ret.kw.low) <= Get(ret.kw.high)))
    => LET d == ret.args[1]
           out == ret.items[1]
           low == ret.kw.low
           high == ret.kw.high
           capped(v) == IF high # None /\ Get(high) < v THEN Get(high) ELSE v
           clamped(v) == IF low # None /\ capped(v) < Get(low) THEN Get(low) ELSE capped(v)
       IN /\ KeysOf(out) = KeysOf(d)
          /\ \A k \in KeysOf(d) : out.m[k] = clamped(d.m[k])

\* C3: every call of a primitive that returns normally grows the tape by
\* exactly one record, whose op is that primitive.
C3_OneRecordPerPrimitive ==
    [][(pc = "start" /\ pc' = "called" /\ ret'.status = "ok" /\ ret'.call \in Primitives)
        => /\ Len(tape') = Len(tape) + 1
           /\ SubSeq(tape', 1, Len(tape)) = tape
           /\ tape'[Len(tape')].op = ret'.call]_vars

\* C4: while ops.py is loaded every register_grad(op) comes after
\* register_op(op), so no registration raises the configuration error and
\* every function that records itself ends up registered with a rule.
C4_GradAfterOp ==
    /\ ~lerr
    /\ (pc = "load" /\ ~LoadEnded /\ LoadSeq[lpc].kind = "grad") => LoadSeq[lpc].fn \in ops
    /\ (lpc > Len(LoadSeq)) => (Recorders \subseteq ops /\ Recorders \subseteq grads)

\* C5: the errors of the taxonomy are raised by the call that detects them
\* and leave the tape unchanged: merge of no operands or of operands that
\* share a key, keep / drop with neither func nor keys, transform_keys with
\* a func not injective on the keys of d, reduce_max / reduce_min of an
\* empty numdict.
Overlapping(ds) ==
    \E i, j \in 1..Len(ds) : i # j /\ KeysOf(ds[i]) \cap KeysOf(ds[j]) # {}
Erroneous(call, args, kw) ==
    CASE call = "merge" -> Len(args) = 0 \/ Overlapping(args)
      [] call \in {"keep", "drop"} -> kw.func = None /\ kw.keys = None
      [] call = "transform_keys" ->
            \E j, k \in KeysOf(args[1]) : j # k /\ Apply(kw.func, j) = Apply(kw.func, k)
      [] call \in {"reduce_max", "reduce_min"} -> KeysOf(args[1]) = {}
      [] OTHER -> FALSE
C5_ErrorsLeaveTape ==
    [][(pc = "start" /\ pc' = "called" /\ Erroneous(ret'.call, ret'.args, ret'.kw))
        => /\ ret'.status = "raise"
           /\ ret'.err = "ValueError"
           /\ tape' = tape]_vars
C5_Witness == Raised("merge") /\ Len(ret.args) = 2 /\ Overlapping(ret.args)

\* C6: a backward rule applied to an upstream gradient and the inputs and
\* keyword arguments of a forward call that succeeded returns a tuple with
\* one gradient per positional input; boltzmann's rule on an empty input
\* returns a 1-tuple and set_by's rule a 2-tuple.
C6_OneGradientPerInput ==
    pc = "done" =>
        /\ ret.status = "ok" => (ret.shape = "tuple" /\ Len(ret.items) = Len(ret.args))
        /\ ret.call \in {"_grad_boltzmann", "_grad_set_by"} => ret.status = "ok"

\* C7: the record of merge(d1, ..., dn) lists d1..dn as n positional inputs,
\* and replaying it through merge's backward rule yields n gradients, the
\* i-th with the keys of di and the values of the upstream gradient.
C7_MergeRecordAndReplay ==
    /\ Returned("merge") =>
          /\ Len(Last.inputs) = Len(ret.args)
          /\ \A i \in 1..Len(Last.inputs) :
                ~IsTuple(Last.inputs[i]) /\ Last.inputs[i].id = ret.args[i].id
    /\ (pc = "done" /\ ret.call = "_grad_merge") =>
          /\ ret.status = "ok"
          /\ Len(ret.items) = Len(ret.args)
          /\ \A i \in 1..Len(ret.items) :
                /\ KeysOf(ret.items[i]) = KeysOf(ret.args[i])
                /\ \A k \in KeysOf(ret.args[i]) : ret.items[i].m[k] = ret.up[1].m[k]

\* C8: backward rules are pure: the tape after a rule returns is the tape
\* before it was called.
C8_BackwardRulesPure ==
    [][(pc = "called" /\ pc' = "done") => tape' = tape]_vars

\* The member Structures of s, and those below them.
MemberStructures(s) ==
    {m \in Structures : \E i \in 1..Len(Values(rmembers, s)) : Values(rmembers, s)[i] = m}
RECURSIVE Below(_)
Below(s) == MemberStructures(s) \cup UNION {Below(m) : m \in MemberStructures(s)}
\* The realizers that are members of s or of a Structure below s.
MembersBelow(s) ==
    {r \in Realizers : \E t \in {s} \cup Below(s) :
        \E i \in 1..Len(Values(rmembers, t)) : Values(rmembers, t)[i] = r}
NewCall(call) == rret'.n # rret.n /\ rret'.call = call

\* C9: step() of a Structure on which start() has not run raises ValueError
\* and propagates and updates nothing, in the structure or in its members;
\* once start() has run, step() does not raise that error; start() starts the
\* structure and every Structure that is below it at that time; and a
\* Structure becomes started by start() alone and stays so.
C9_StepRequiresStart ==
    [][/\ (NewCall("step") /\ rret'.target \in Structures)
            => IF started[rret'.target]
               THEN rret'.err # "ValueError"
               ELSE /\ rret'.status = "raise" /\ rret'.err = "ValueError"
                    /\ rlog' = NoEvents
                    /\ UNCHANGED <<rinputs, rmembers, started>>
       /\ NewCall("start")
            => \A m \in {rret'.target} \cup Below(rret'.target) : started'[m]
       /\ \A s \in Structures :
            /\ started[s] => started'[s]
            /\ (started'[s] /\ ~started[s])
                 => NewCall("start") /\ s \in {rret'.target} \cup Below(rret'.target)]_vars
\* B was started by start() of A, of which it is a member, and then stepped
\* with its own member.
C9_Witness ==
    /\ rret.call = "step" /\ rret.target = "B" /\ rret.status = "ok"
    /\ "B" \in Below("A") /\ started["A"] /\ started["B"]
    /\ Len(rlog) > 2

\* C10: clear_inputs() returns normally and leaves the inputs of the realizer
\* empty, however many links it held; for a Structure, no realizer below it
\* still holds a link from a construct that was among the structure's inputs.
C10_ClearInputsEmpties ==
    [][NewCall("clear_inputs")
        => /\ rret'.status = "ok"
           /\ rinputs'[rret'.target] = <<>>
           /\ rret'.target \in Structures
                => \A m \in MembersBelow(rret'.target) :
                     \A i \in 1..Len(rinputs[rret'.target]) :
                        ~HasItem(rinputs'[m], rinputs[rret'.target][i].k)]_vars

MembersOf(mem, s) == {r \in Realizers : IsMemberOf(mem, s, r)}
Innermost == blocks[Len(blocks)]

\* C11: when a with-block of s exits, every realizer constructed while it
\* was the innermost open block is added to s and to no other structure, the
\* exit returns normally, and build_ctx and build_list are again what they
\* were when the block was entered; for any nesting of blocks, a block of s
\* inside a block of s included.
C11_BlocksAddAndRestore ==
    [][NewCall("exit")
        => /\ rret'.status = "ok"
           /\ build_ctx' = Innermost.ctx
           /\ build_list' = Innermost.list
           /\ MembersOf(rmembers', Innermost.s)
                = MembersOf(rmembers, Innermost.s) \cup Innermost.made
           /\ \A t \in Structures \ {Innermost.s} : rmembers'[t] = rmembers[t]]_vars

\* The realizers that are members of s or of a Structure below s, in mem.
RECURSIVE Inside(_, _)
Inside(mem, s) ==
    {r \in Realizers : IsMemberOf(mem, s, r)}
        \cup UNION {Inside(mem, t) : t \in {t \in Structures : IsMemberOf(mem, s, t)}}

\* C12: after remove(c) returns, c is no member of the structure and no
\* realizer left inside it, at any depth, has c among its inputs; after
\* clear() the structure has no members.
C12_RemoveUnlinks ==
    [][/\ (NewCall("remove") /\ rret'.status = "ok")
            => /\ ~IsMemberOf(rmembers', rret'.target, rlog'[1].r)
               /\ \A m \in Inside(rmembers', rret'.target) :
                    ~HasItem(rinputs'[m], rlog'[1].r)
       /\ NewCall("clear")
            => rret'.status = "ok" /\ Values(rmembers', rret'.target) = <<>>]_vars
\* c1 was removed from A, and its link was deleted from c2, a member of the
\* member B of A.
C12_Witness ==
    /\ rret.call = "remove" /\ rret.status = "ok" /\ rret.target = "A"
    /\ rlog[1].r = "c1"
    /\ IsMemberOf(rmembers, "A", "B") /\ IsMemberOf(rmembers, "B", "c2")
    /\ \E i \in 2..Len(rlog) : rlog[i] = Event("drop", "c2")

Replayed(name) == pc = "done" /\ ret.call = name
\* The value of boltzmann(d, t).
BoltzmannOf(d, t) == boltzmann(St(<<>>, 1), d, t).val

\* C13: for a nonempty d and an upstream gradient g defined on the keys of d,
\* boltzmann's backward rule returns the gradient with
\* grad[k] = sum over j of g[j] * value[k] * ((1 if j = k else 0) - value[j])
\* at every key k of d, where value = boltzmann(d, t).
C13_BoltzmannJacobian ==
    (Replayed("_grad_boltzmann") /\ LenOf(ret.args[1]) > 0)
        => /\ ret.status = "ok" /\ ret.shape = "tuple" /\ Len(ret.items) = 1
           /\ LET d == ret.args[1]
                  g == ret.up[1]
                  grad == ret.items[1]
                  value == BoltzmannOf(d, ret.kw.t)
              IN /\ KeysOf(grad) = KeysOf(d)
                 /\ \A k \in KeysOf(d) :
                      grad.m[k] * g.den * value.den * value.den
                        = grad.den * SumOver([j \in KeysOf(d) |->
                              Lookup(g, j) * value.m[k]
                                * (Mask(j = k, value.den) - value.m[j])], KeysOf(d))

\* C14: after set_by(target, source, keyfunc) succeeded, for a target with or
\* without keys, set_by's backward rule applied to an upstream gradient over
\* the keys of target returns a pair: a gradient for target that is 0 at
\* every key of target, and a gradient for source whose value at s is the sum
\* of upstream[k] over the keys k of target with keyfunc(k) = s.
C14_SetByGradient ==
    Replayed("_grad_set_by")
        => /\ ret.status = "ok" /\ ret.shape = "tuple" /\ Len(ret.items) = 2
           /\ LET target == ret.args[1]
                  g == ret.up[1]
                  gt == ret.items[1]
                  gs == ret.items[2]
                  image == {Apply(ret.kw.keyfunc, k) : k \in KeysOf(target)}
              IN /\ \A k \in KeysOf(target) : HasKey(gt, k) /\ Lookup(gt, k) = 0
                 /\ KeysOf(gs) = image
                 /\ \A x \in image :
                      gs.m[x] * g.den
                        = gs.den * SumOver([k \in KeysOf(target) |->
                              Mask(Apply(ret.kw.keyfunc, k) = x, Lookup(g, k))],
                              KeysOf(target))

\* C15: threshold(d, th=th) retains exactly the keys of d whose value is
\* strictly above th, with their values; a key whose value is th or less is
\* dropped.  The default of the result is that of d when d has one and
\* keep_default is set or the default is above th, and None otherwise.
C15_ThresholdStrict ==
    Returned("threshold")
        => LET d == ret.args[1]
               out == ret.items[1]
               th == ret.kw.th
           IN /\ KeysOf(out) \subseteq KeysOf(d)
              /\ \A k \in KeysOf(d) :
                    /\ k \in KeysOf(out) => (out.m[k] = d.m[k] /\ d.m[k] > th)
                    /\ k \notin KeysOf(out) => d.m[k] <= th
              /\ out.den = d.den
              /\ out.default =
                    IF d.default # None /\ (ret.kw.keep_default \/ Get(d.default) > th)
                    THEN d.default ELSE None
\* A call that dropped a value equal to th, retained a larger one and
\* dropped a default equal to th.
C15_Witness ==
    /\ Returned("threshold")
    /\ \E k \in KeysOf(ret.args[1]) :
          ret.args[1].m[k] = ret.kw.th /\ k \notin KeysOf(ret.items[1])
    /\ KeysOf(ret.items[1]) # {}
    /\ ret.args[1].default = Some(ret.kw.th) /\ ret.items[1].default = None

SameDict(x, y) == x.m = y.m /\ x.den = y.den /\ x.default = y.default
\* The default the operands share, None when they do not share one.
CommonDefault(ds) ==
    IF \A i \in 1..Len(ds) : ds[i].default = ds[1].default THEN ds[1].default ELSE None

\* C16: for pairwise disjoint a, b, c: merge(a, b) and merge(b, a) have the
\* same mapping and default; so do merge(merge(a, b), c) and
\* merge(a, merge(b, c)); len(merge(a, b)) = len(a) + len(b); and the default
\* of a merge is the default its operands share, None when they differ.
C16_MergeAlgebra ==
    /\ pc = "called" /\ ret.call = "merge_both_ways"
          => /\ ret.status = "ok"
             /\ SameDict(ret.items[1], ret.items[2])
             /\ LenOf(ret.items[1]) = LenOf(ret.args[1]) + LenOf(ret.args[2])
             /\ ret.items[1].default = CommonDefault(ret.args)
             /\ \A k \in KeysOf(ret.items[1]) :
                   ret.items[1].m[k] = IF k \in KeysOf(ret.args[1])
                                       THEN ret.args[1].m[k] ELSE ret.args[2].m[k]
    /\ pc = "called" /\ ret.call = "merge_nested"
          => /\ ret.status = "ok"
             /\ SameDict(ret.items[2], ret.items[4])
             /\ ret.items[5].default = CommonDefault(ret.args)
             /\ ret.items[1].default = CommonDefault(SubSeq(ret.args, 1, 2))
\* Three nonempty operands of which the first two share a default that the
\* third does not have.
C16_Witness ==
    /\ Returned("merge_nested")
    /\ \A i \in 1..3 : LenOf(ret.args[i]) > 0
    /\ ret.args[1].default = ret.args[2].default
    /\ ret.args[1].default # None
    /\ ret.args[3].default \notin {None, ret.args[1].default}

\* C17: for f injective on the keys of d and f_inv undoing f on them,
\* transform_keys(transform_keys(d, f), f_inv) has the mapping and the
\* default of d.
C17_TransformRoundTrip ==
    pc = "called" /\ ret.call = "transform_back"
        => /\ ret.status = "ok"
           /\ SameDict(ret.items[2], ret.args[1])
\* A round trip of two or more keys with a default through a function that
\* moves them.
C17_Witness ==
    /\ Returned("transform_back")
    /\ LenOf(ret.args[1]) > 1
    /\ ret.args[1].default # None
    /\ \A k \in KeysOf(ret.args[1]) : Apply(ret.kw.func, k) # k
    /\ \E j, k \in KeysOf(ret.args[1]) : ret.args[1].m[j] # ret.args[1].m[k]

\* The scalar a reduction's backward rule reads from the upstream gradient.
UpstreamScalar(g, key) == IF key = None THEN Get(g.default) ELSE Lookup(g, Get(key))
\* The gradient has the keys of d, the upstream scalar at the keys where d
\* takes the value ext and 0 at the others.
RoutesTo(grad, g, d, key, ext) ==
    /\ KeysOf(grad) = KeysOf(d)
    /\ \A k \in KeysOf(d) :
         grad.m[k] * g.den = grad.den * Mask(d.m[k] = ext, UpstreamScalar(g, key))

Composites == {"by", "sum_by", "max_by", "min_by", "sigmoid", "tanh"}
\* The records the step appended to the tape.
Appended == SubSeq(tape', Len(tape) + 1, Len(tape'))

\* C19: during a call of sum_by, max_by, min_by (each a call of by), sigmoid
\* or tanh, whether it returns or raises, no record is appended whose op is
\* one of the composite operations, and every record appended during sum_by
\* has op keep, reduce_sum or merge.
C19_CompositesDoNotRecord ==
    [][(pc = "start" /\ pc' = "called" /\ ret'.call \in Composites)
          => /\ Len(tape') >= Len(tape)
             /\ SubSeq(tape', 1, Len(tape)) = tape
             /\ \A i \in 1..Len(Appended) : Appended[i].op \notin Composites
             /\ ret'.call = "sum_by"
                   => \A i \in 1..Len(Appended) :
                         Appended[i].op \in {"keep", "reduce_sum", "merge"}]_vars
\* A sum_by over two groups returned: the tape holds two keep records, two
\* reduce_sum records and the merge record.
C19_Witness ==
    /\ Returned("sum_by")
    /\ LenOf(ret.items[1]) = 2
    /\ Len(tape) = 5
    /\ tape[5].op = "merge"
    /\ Cardinality({i \in 1..5 : tape[i].op = "keep"}) = 2
    /\ Cardinality({i \in 1..5 : tape[i].op = "reduce_sum"}) = 2

\* The keys of d that keyfunc sends to the group key x.
GroupOf(d, keyfunc, x) == {k \in KeysOf(d) : Apply(keyfunc, k) = x}
\* What the reducer of a grouped reduction makes of the values of a group.
Reduced(name, d, S) ==
    CASE name = "sum_by" -> SumOver(d.m, S)
      [] name = "max_by" -> MaxOf({d.m[k] : k \in S})
      [] name = "min_by" -> MinOf({d.m[k] : k \in S})

\* C20: for every d, with or without explicit keys, and every keyfunc,
\* sum_by(d, keyfunc) returns a numdict whose keys are exactly the values
\* keyfunc takes on the keys of d and whose value at a group key is the sum of
\* d over the keys of that group; max_by and min_by return the same with the
\* maximum and the minimum.
C20_GroupedReduction ==
    (pc = "called" /\ ret.call \in {"sum_by", "max_by", "min_by"})
        => /\ ret.status = "ok"
           /\ LET d == ret.args[1]
                  out == ret.items[1]
                  image == {Apply(ret.kw.keyfunc, k) : k \in KeysOf(d)}
              IN /\ KeysOf(out) = image
                 /\ \A x \in image :
                      out.m[x] * d.den
                        = out.den * Reduced(ret.call, d, GroupOf(d, ret.kw.keyfunc, x))

\* C21: with func or keys supplied, keep(d, func, keys) returns the entries
\* of d whose key satisfies func or is in keys, with their values and the
\* default of d; keep's backward rule, given an upstream gradient over the
\* kept keys, returns the upstream value at every kept key and 0 at every
\* other key of d.
C21_KeepAndGradient ==
    /\ (pc = "called" /\ ret.call = "keep"
            /\ (ret.kw.func # None \/ ret.kw.keys # None))
          => /\ ret.status = "ok"
             /\ LET d == ret.args[1]
                    out == ret.items[1]
                    kept == {k \in KeysOf(d) : Selected(ret.kw.func, ret.kw.keys, k)}
                IN /\ KeysOf(out) = kept
                   /\ \A k \in kept : out.m[k] = d.m[k]
                   /\ out.den = d.den
                   /\ out.default = d.default
    /\ Replayed("_grad_keep")
          => /\ ret.status = "ok" /\ ret.shape = "tuple" /\ Len(ret.items) = 1
             /\ LET d == ret.args[1]
                    g == ret.up[1]
                    grad == ret.items[1]
                IN /\ KeysOf(grad) = KeysOf(d)
                   /\ \A k \in KeysOf(d) :
                        IF Selected(ret.kw.func, ret.kw.keys, k)
                        THEN grad.m[k] * g.den = grad.den * Lookup(g, k)
                        ELSE grad.m[k] = 0

NewEffectorCall(call) == eret'.n # eret.n /\ eret'.call = call
\* C22: fire_buffered fires each chunk that was in the buffer once and no
\* other chunk, and leaves the buffer empty, so that a fire_buffered right
\* after it fires nothing; assigning a set to buffer gives the buffer the
\* elements of that set, and a later change of the assigned set leaves every
\* buffer as it was.
C22_FireBufferedAndCopy ==
    [][/\ NewEffectorCall("fire_buffered")
            => /\ fired' = [c \in Chunks |-> IF c \in buffer(eret'.e) THEN 1 ELSE 0]
               /\ setobj'[ebuffer'[eret'.e]] = {}
               /\ (eret.call = "fire_buffered" /\ eret.e = eret'.e)
                     => fired' = [c \in Chunks |-> 0]
       /\ NewEffectorCall("set_buffer")
            => setobj'[ebuffer'[eret'.e]] = setobj[Get(cset)]
       /\ NewEffectorCall("client_change")
            => \A e \in Effectors : setobj'[ebuffer'[e]] = buffer(e)]_vars
\* An effector whose buffer was assigned fired both chunks, and the set the
\* client assigned still holds them.
C22_Witness ==
    /\ eret.call = "fire_buffered"
    /\ \A c \in Chunks : fired[c] = 1
    /\ ebuffer[eret.e] # ClassBuffer
    /\ buffer(eret.e) = {}
    /\ cset # None /\ setobj[Get(cset)] = Chunks

\* C23: when a call of a primitive returns, the record it appended is the
\* last of the tape and the output identity in that record is the identity of
\* the numdict the call returned, for boltzmann on an empty input as on any
\* other input.
C23_RecordedOutputIsReturned ==
    (pc = "called" /\ ret.call \in Primitives /\ ret.status = "ok")
        => /\ tape # <<>>
           /\ Last.op = ret.call
           /\ Last.out = ret.items[1].id

\* C24: after transform_keys(d, func) succeeded (func is injective on the
\* keys of d), transform_keys's backward rule returns one gradient that has
\* exactly the keys of d, with grad[k] = upstream[func(k)] at every key k.
C24_TransformKeysGradient ==
    Replayed("_grad_transform_keys")
        => /\ ret.status = "ok" /\ ret.shape = "tuple" /\ Len(ret.items) = 1
           /\ LET d == ret.args[1]
                  g == ret.up[1]
                  grad == ret.items[1]
              IN /\ KeysOf(grad) = KeysOf(d)
                 /\ \A k \in KeysOf(d) :
                      grad.m[k] * g.den = grad.den * Lookup(g, Apply(ret.kw.func, k))

\* The numdicts among the inputs of a record; merge records its operands as
\* one tuple.
InputDicts(r) ==
    UNION {IF IsTuple(r.inputs[i]) THEN Range(r.inputs[i].items) ELSE {r.inputs[i]} :
              i \in 1..Len(r.inputs)}
Reducers == {"reduce_sum", "reduce_max", "reduce_min"}

\* C25: the tape is in dependency order: the record that produced an input
\* of a record stands strictly before that record.  After sum_by, max_by or
\* min_by, each reducer record stands right after the keep record whose
\* output it reduces, and the merge record stands last, after the reducer
\* records whose outputs it merges.
C25_TapeInDependencyOrder ==
    /\ \A i, j \in 1..Len(tape) :
          (\E d \in InputDicts(tape[i]) : d.id = tape[j].out) => j < i
    /\ (pc = "called" /\ ret.call \in {"sum_by", "max_by", "min_by"} /\ ret.status = "ok")
          => /\ Last.op = "merge"
             /\ \A i \in 1..Len(tape) - 1 : tape[i].op \in Reducers \cup {"keep"}
             /\ \A i \in 1..Len(tape) :
                   tape[i].op \in Reducers
                      => /\ i > 1 /\ tape[i - 1].op = "keep"
                         /\ tape[i].inputs[1].id = tape[i - 1].out
                         /\ \E d \in InputDicts(Last) : d.id = tape[i].out
\* max_by over two groups returned: keep, reduce_max, keep, reduce_max, merge,
\* each reduce_max reading the output of the keep before it.
C25_Witness ==
    /\ Returned("max_by")
    /\ Len(tape) = 5
    /\ tape[2].op = "reduce_max" /\ tape[2].inputs[1].id = tape[1].out
    /\ tape[4].op = "reduce_max" /\ tape[4].inputs[1].id = tape[3].out
    /\ {d.id : d \in InputDicts(tape[5])} = {tape[2].out, tape[4].out}

\* C26: in a network that was only built by add and offer, for every two
\* distinct members a and b of a structure, the construct of a is a key of
\* b.inputs exactly when b accepts it, and the callback stored there is the
\* view of a, the realizer registered under that construct; and every input
\* of the structure that a member accepts is an input of the member.
C26_MembersLinked ==
    \A s \in Structures :
        /\ \A a, b \in Range(Values(rmembers, s)) :
              a # b =>
                /\ HasItem(rinputs[b], ConstructOf(a)) <=> Accepts(b, ConstructOf(a))
                /\ \A i \in 1..Len(rinputs[b]) :
                      rinputs[b][i].k = ConstructOf(a) => rinputs[b][i].v = a
        /\ \A b \in Range(Values(rmembers, s)) :
              \A i \in 1..Len(rinputs[s]) :
                  Accepts(b, rinputs[s][i].k) => HasItem(rinputs[b], rinputs[s][i].k)

Stepped(s) == rret.call = "step" /\ rret.status = "ok" /\ rret.target = s
\* C27: in the events of one step of a structure, every propagation of a
\* member and every refresh of an output, that of the structure included,
\* comes before every update; the update of the structure comes first among
\* the updates, and after the update of any structure come the updates of
\* each of its members.
C27_PropagateThenUpdateTopDown ==
    \A s \in Structures :
        Stepped(s) =>
            /\ \A i, j \in 1..Len(rlog) :
                  (rlog[i].ev \in {"propagate", "output"} /\ rlog[j].ev = "update")
                      => i < j
            /\ \E i \in 1..Len(rlog) :
                  /\ rlog[i] = Event("output", s)
                  /\ i < Len(rlog) /\ rlog[i + 1] = Event("update", s)
            /\ \A i \in 1..Len(rlog) :
                  (rlog[i].ev = "update" /\ rlog[i].r \in Structures)
                      => \A m \in Range(Values(rmembers, rlog[i].r)) :
                            \E j \in (i + 1)..Len(rlog) : rlog[j] = Event("update", m)
\* A stepped: B is a member of A and has a member of its own, and all three
\* were updated.
C27_Witness ==
    /\ Stepped("A")
    /\ IsMemberOf(rmembers, "A", "B")
    /\ Values(rmembers, "B") # <<>>
    /\ \E i, j, k \in 1..Len(rlog) :
          /\ i < j /\ j < k
          /\ rlog[i] = Event("update", "A")
          /\ rlog[j] = Event("update", "B")
          /\ rlog[k] = Event("update", Values(rmembers, "B")[1])
    /\ \E i \in 1..Len(rlog) : rlog[i].ev = "propagate"

====
